---- MODULE Spec2Model ----
(***************************************************************************)
(* A model of the AI Chat Portal backend:                                  *)
(*   - the persisted store (Conversation, Message, ConversationQuery) and  *)
(*     the operations of ConversationViewSet (conversations/views.py),     *)
(*     each as one step (Spec) and chat and end step by step, served one   *)
(*     after the other (SpecSequential) or interleaved (SpecConcurrent);   *)
(*   - QueryEngine (ai_module/query_engine.py): similarity scoring with    *)
(*     its fallback chain, relevance filtering and the query result;       *)
(*   - SuggestionsService (ai_module/suggestions_service.py): related      *)
(*     conversations, topic-based suggestions and trending topics;         *)
(*   - ConversationAnalyzer (ai_module/conversation_analyzer.py): the      *)
(*     analysis of a conversation;                                         *)
(*   - ChatService (ai_module/chat_service.py): provider selection and     *)
(*     get_response.                                                       *)
(*                                                                         *)
(* Texts.  A text is a sequence of whitespace-delimited tokens.  A token   *)
(* is a triple <<pre, w, suf>>: one alphabetic run w with the punctuation  *)
(* glued before and after it, so that "login." and "login" are different   *)
(* tokens (str.split) holding the same word (re.findall of letters).       *)
(*                                                                         *)
(* Optional values.  None is the empty tuple <<>>, a set value x is <<x>>. *)
(*                                                                         *)
(* Scores.  A score is an exact rational <<num, den>> with den > 0.        *)
(***************************************************************************)
EXTENDS Integers, Sequences, FiniteSets, TLC

VARIABLES
    convs,      \* Conversation table: id -> row
    msgs,       \* Message table, in insertion (= timestamp) order
    queries,    \* ConversationQuery table, in insertion order
    nextId,     \* next auto-increment id of the Conversation table
    clock,      \* timezone.now(), one tick per request
    resp,       \* the response of the last request
    reqs,       \* the chat and end requests served step by step, by arrival
    qpc,        \* QueryEngine run: "new", "ready", "done"
    qenv,       \* what the environment of the QueryEngine does (capabilities)
    qeng,       \* the QueryEngine object: provider, client, embeddings_model
    qin,        \* the arguments of query_conversations
    qout,       \* what query_conversations computed and returned
    rpc,        \* SuggestionsService run: "input", "done"
    rin,        \* the arguments of the SuggestionsService method
    rout,       \* what the SuggestionsService method returned
    apc,        \* ConversationAnalyzer run: "input", "done"
    ain,        \* the analyzer's client and the messages it is given
    aout,       \* what analyze_conversation returned
    spc,        \* ChatService run: "new", "ready", "done"
    senv,       \* what the environment of the ChatService does
    svc,        \* the ChatService object: provider, client
    sin,        \* the arguments of get_response
    sout        \* what get_response returned

storeVars == <<convs, msgs, queries, nextId, clock, resp, reqs>>
queryVars == <<qpc, qenv, qeng, qin, qout>>
relVars == <<rpc, rin, rout>>
anaVars == <<apc, ain, aout>>
svcVars == <<spc, senv, svc, sin, sout>>
vars == <<convs, msgs, queries, nextId, clock, resp, reqs,
          qpc, qenv, qeng, qin, qout, rpc, rin, rout,
          apc, ain, aout, spc, senv, svc, sin, sout>>

-----------------------------------------------------------------------------
(* Bounds of the model. *)

\* requests served in one behaviour of the store
MaxOps == 3
\* requests that arrive in one behaviour of the store served step by step
MaxRequests == 3
\* rows ever created in the Conversation table
MaxConvs == 2

-----------------------------------------------------------------------------
(* Helpers: optional values, sequences, texts. *)

None == <<>>
Some(x) == <<x>>
IsSet(o) == o # <<>>
Val(o) == o[1]

Range(s) == {s[i] : i \in DOMAIN s}

Min2(a, b) == IF a <= b THEN a ELSE b

\* s[:n]
Take(s, n) == SubSeq(s, 1, Min2(n, Len(s)))

\* a plain word as a token
T(w) == <<"", w, "">>
Pre(tok) == tok[1]
Word(tok) == tok[2]
Suf(tok) == tok[3]

\* str.lower() on the letters the catalogue uses
LowerWord(w) ==
    CASE w = "Login" -> "login"
      [] w = "Good" -> "good"
      [] w = "Topics" -> "topics"
      [] w = "Content" -> "content"
      [] w = "Brief" -> "brief"
      [] w = "Conversation" -> "conversation"
      [] w = "Comprehensive" -> "comprehensive"
      [] w = "We" -> "we"
      [] w = "The" -> "the"
      [] w = "Fix" -> "fix"
      [] w = "Update" -> "update"
      [] w = "Task" -> "task"
      [] w = "How" -> "how"
      [] OTHER -> w

LowerTok(tok) == <<Pre(tok), LowerWord(Word(tok)), Suf(tok)>>

\* set(text.lower().split())
TokenSet(text) == {LowerTok(text[i]) : i \in DOMAIN text}

RECURSIVE Concat(_)
\* " ".join(parts)
Concat(parts) ==
    IF parts = <<>> THEN <<>> ELSE Head(parts) \o Concat(Tail(parts))

\* number of characters of the text, tokens joined by single spaces
RECURSIVE CharLen(_)
CharLen(text) ==
    IF text = <<>> THEN 0
    ELSE Len(Pre(Head(text))) + Len(Word(Head(text))) + Len(Suf(Head(text)))
         + (IF Len(text) > 1 THEN 1 + CharLen(Tail(text)) ELSE 0)

\* text[:n]: the tokens that fit whole in the first n characters (the texts of
\* the catalogue are shorter than every budget the code uses)
RECURSIVE Trunc(_, _)
Trunc(text, n) ==
    IF CharLen(text) <= n THEN text ELSE Trunc(Take(text, Len(text) - 1), n)

\* f"'{text}...'"
Quoted(text) ==
    IF text = <<>> THEN << <<"'", "", "...'">> >>
    ELSE [i \in DOMAIN text |->
            <<(IF i = 1 THEN "'" ELSE "") \o Pre(text[i]),
              Word(text[i]),
              Suf(text[i]) \o (IF i = Len(text) THEN "...'" ELSE "")>>]

\* f"{text}<mark> ": the mark is glued to the last token
Marked(text, mark) ==
    IF text = <<>> THEN << <<"", "", mark>> >>
    ELSE [i \in DOMAIN text |->
            IF i = Len(text)
            THEN <<Pre(text[i]), Word(text[i]), Suf(text[i]) \o mark>>
            ELSE text[i]]

-----------------------------------------------------------------------------
(* ConversationAnalyzer: what the end operation stores.  A message is a    *)
(* record [content, sender].                                               *)

StopWords ==
    {"the", "is", "at", "which", "on", "a", "an", "and", "or", "but",
     "in", "with", "to", "for", "of", "as", "by", "that", "this",
     "it", "from", "are", "was", "were", "been", "be", "have", "has",
     "had", "do", "does", "did", "will", "would", "could", "should",
     "can", "may", "might", "must", "i", "you", "he", "she", "we",
     "they", "what", "how", "when", "where", "why", "who", "your",
     "their", "there", "here", "then", "than", "these", "those"}

PositiveWords ==
    {"good", "great", "excellent", "amazing", "wonderful", "fantastic",
     "love", "like", "enjoy", "happy", "glad", "thank", "thanks",
     "appreciate", "perfect", "awesome", "brilliant", "excited",
     "helpful", "useful", "nice", "better", "best", "pleased"}

NegativeWords ==
    {"bad", "terrible", "awful", "hate", "dislike", "angry", "sad",
     "disappointed", "frustrated", "annoyed", "problem", "issue",
     "wrong", "error", "fail", "failed", "difficult", "hard",
     "worse", "worst", "unhappy", "upset", "confused"}

\* " ".join([m['content'] for m in messages])
AllText(messages) == Concat([i \in DOMAIN messages |-> messages[i].content])

\* the lowercase alphabetic runs of the text, in order
LowerWords(text) ==
    LET ws == [i \in DOMAIN text |-> LowerWord(Word(text[i]))]
    IN  SelectSeq(ws, LAMBDA w : w # "")

CountIn(ws, w) == Cardinality({i \in DOMAIN ws : ws[i] = w})

\* the distinct elements of ws in order of first occurrence (Counter's keys)
RECURSIVE FirstSeen(_)
FirstSeen(ws) ==
    IF ws = <<>> THEN <<>>
    ELSE LET init == Take(ws, Len(ws) - 1)
             last == ws[Len(ws)]
         IN  IF last \in Range(init) THEN FirstSeen(init)
             ELSE Append(FirstSeen(init), last)

\* exact comparison of two scores <<num, den>>, den > 0
ScoreGT(a, b) == a[1] * b[2] > b[1] * a[2]
ScoreGE(a, b) == a[1] * b[2] >= b[1] * a[2]

\* a bug: the new element is put first, whatever its score
InsertFirst(sorted, x) == <<x>> \o sorted

\* x, a record with a score field, put before the first element it outranks
RECURSIVE InsertDesc(_, _)
InsertDesc(sorted, x) ==
    IF sorted = <<>> THEN <<x>>
    ELSE IF ScoreGT(x.score, Head(sorted).score) THEN <<x>> \o sorted
         ELSE <<Head(sorted)>> \o InsertDesc(Tail(sorted), x)

\* a bug: the list is left in its order
KeepOrder(s) == s

\* list.sort(key=score, reverse=True): descending, equal scores keep their order
RECURSIVE SortDesc(_)
SortDesc(s) ==
    IF s = <<>> THEN <<>>
    ELSE InsertDesc(SortDesc(Take(s, Len(s) - 1)), s[Len(s)])

TopicsMostCommon == 10
TopicsCap == 7

_extract_topics(messages) ==
    LET words == SelectSeq(LowerWords(AllText(messages)), LAMBDA w : Len(w) >= 4)
        filtered_words == SelectSeq(words, LAMBDA w : w \notin StopWords)
        keys == FirstSeen(filtered_words)
        counted == [i \in DOMAIN keys |->
                      [item |-> keys[i],
                       score |-> <<CountIn(filtered_words, keys[i]), 1>>]]
        most_common == Take(SortDesc(counted), TopicsMostCommon)
        kept == SelectSeq(most_common, LAMBDA c : c.score[1] > 1)
        topics == [i \in DOMAIN kept |-> kept[i].item]
    IN  Take(topics, TopicsCap)

\* a bug: the label is the majority of the two counts
_analyze_sentiment_majority(messages) ==
    LET words == Range(LowerWords(AllText(messages)))
        positive_count == Cardinality(words \cap PositiveWords)
        negative_count == Cardinality(words \cap NegativeWords)
    IN  IF positive_count > negative_count THEN "positive"
        ELSE IF positive_count < negative_count THEN "negative"
        ELSE "neutral"

_analyze_sentiment(messages) ==
    LET words == Range(LowerWords(AllText(messages)))
        positive_count == Cardinality(words \cap PositiveWords)
        negative_count == Cardinality(words \cap NegativeWords)
        total == positive_count + negative_count
    IN  IF total = 0 THEN "neutral"
        ELSE IF 100 * positive_count > 70 * total THEN "very positive"
        ELSE IF 100 * positive_count > 55 * total THEN "positive"
        ELSE IF 100 * positive_count > 45 * total THEN "neutral"
        ELSE IF 100 * positive_count > 30 * total THEN "negative"
        ELSE "very negative"

_generate_basic_summary(messages) ==
    LET user_messages ==
            LET um == SelectSeq(messages, LAMBDA m : m.sender = "user")
            IN  [i \in DOMAIN um |-> um[i].content]
    IN  IF user_messages = <<>>
        THEN <<T("Conversation"), T("with"), T("AI"), T("assistant")>>
        ELSE LET first_msg == Trunc(user_messages[1], 100)
             IN  IF Len(user_messages) > 5
                 THEN <<T("Comprehensive"), T("discussion"), T("starting"), T("with")>>
                      \o Quoted(first_msg)
                      \o <<T("The"), T("conversation"), T("covered"),
                           <<"", "", ToString(Len(user_messages))>>,
                           T("topics"), T("with"),
                           <<"", "", ToString(Len(messages))>>,
                           T("total"), <<"", "exchanges", ".">> >>
                 ELSE IF Len(user_messages) > 1
                 THEN LET last_msg == Trunc(user_messages[Len(user_messages)], 80)
                      IN  <<T("Conversation"), T("about")>> \o Quoted(first_msg)
                          \o <<T("concluding"), T("with")>> \o Quoted(last_msg)
                 ELSE <<T("Brief"), <<"", "discussion", ":">> >> \o first_msg

\* a bug: a failed completion call leaves the summary empty
_generate_summary_unguarded(client, messages) ==
    IF IsSet(client)
    THEN (IF IsSet(Val(client)) THEN Val(Val(client)) ELSE <<>>)
    ELSE _generate_basic_summary(messages)

\* client is what _initialize_client left: None, or <<reply>> with the reply
\* of the completion call, None again standing for a call that raises
_generate_summary(client, messages) ==
    IF IsSet(client) /\ IsSet(Val(client)) THEN Val(Val(client))
    ELSE _generate_basic_summary(messages)

\* the characters of a token, and of a text with its tokens joined by spaces
TokStr(tok) == Pre(tok) \o Word(tok) \o Suf(tok)

RECURSIVE Render(_)
Render(text) ==
    IF text = <<>> THEN ""
    ELSE TokStr(Head(text)) \o (IF Len(text) > 1 THEN " " \o Render(Tail(text)) ELSE "")

\* text.lower()
Lower(text) == [i \in DOMAIN text |-> LowerTok(text[i])]

\* f is a substring of s
Contains(s, f) ==
    \E i \in 1..(Len(s) - Len(f) + 1) : SubSeq(s, i, i + Len(f) - 1) = f

\* re.search(pattern, text) for a pattern "(?i)(a|b|...)" of literal
\* alternatives, given as the set of the alternatives in lower case
Search(pattern, text) == \E f \in pattern : Contains(Render(Lower(text)), f)

decision_patterns ==
    << {"decided to", "will", "going to", "agreed to", "chose to", "selected", "picked"},
       {"let's", "we'll", "we will", "we should", "we must"},
       {"final decision", "conclusion", "determined that"},
       {"approved", "confirmed", "settled on"} >>

action_patterns ==
    << {"need to", "have to", "must", "should", "ought to"},
       {"todo", "to-do", "task", "action item"},
       {"will do", "will create", "will build", "will implement", "will design",
        "will develop"},
       {"remember to", "don't forget to"},
       {"next step", "next, we", "then we"} >>

imperative_verbs ==
    {"create", "build", "implement", "design", "develop",
     "make", "add", "update", "change", "fix", "test"}

\* the token ends with one of the characters re.split(r'[.!?]') splits at (in
\* the messages of the catalogue these stand alone at the end of a token)
EndsSentence(tok) == Suf(tok) \in {".", "!", "?"}

\* re.split(r'[.!?]', content), each piece stripped; empty pieces are left
\* out (they fail every length test)
RECURSIVE Sentences(_)
Sentences(text) ==
    IF text = <<>> THEN <<>>
    ELSE LET ends == {i \in DOMAIN text : EndsSentence(text[i])}
         IN  IF ends = {} THEN <<text>>
             ELSE LET e == CHOOSE i \in ends : \A j \in ends : i <= j
                      sentence == [i \in 1..e |->
                                     IF i = e THEN <<Pre(text[i]), Word(text[i]), "">>
                                     ELSE text[i]]
                  IN  <<sentence>> \o Sentences(SubSeq(text, e + 1, Len(text)))

MinSentence == 10
MinEntry == 15
EntryLimit == 150

\* a variant: every sentence of at least 10 characters that matches the
\* pattern is appended
AllMatches(pattern, content) ==
    LET hits == SelectSeq(Sentences(content),
                    LAMBDA sentence : /\ Search(pattern, sentence)
                                      /\ CharLen(sentence) >= MinSentence)
    IN  [i \in DOMAIN hits |-> Trunc(hits[i], EntryLimit)]

\* the inner loop over the sentences: the first sentence that matches the
\* pattern and is long enough is appended, cut to 150 characters
FirstMatch(pattern, content) ==
    LET hits == SelectSeq(Sentences(content),
                    LAMBDA sentence : /\ Search(pattern, sentence)
                                      /\ CharLen(sentence) > MinSentence
                                      /\ CharLen(sentence) > MinEntry)
    IN  IF hits = <<>> THEN <<>> ELSE <<Trunc(hits[1], EntryLimit)>>

\* the loops over the messages and the patterns
Extracted(patterns, messages) ==
    Concat([m \in DOMAIN messages |->
        Concat([q \in DOMAIN patterns |->
            IF Search(patterns[q], messages[m].content)
            THEN FirstMatch(patterns[q], messages[m].content)
            ELSE <<>>])])

\* a bug: duplicates are kept
KeepDuplicates(items) == items

\* "if d.lower() not in seen": the first of the entries that are equal
\* ignoring case is kept, in the original order
RECURSIVE DedupLower(_)
DedupLower(items) ==
    IF items = <<>> THEN <<>>
    ELSE LET init == Take(items, Len(items) - 1)
             last == items[Len(items)]
         IN  IF Lower(last) \in {Lower(init[i]) : i \in DOMAIN init}
             THEN DedupLower(init)
             ELSE Append(DedupLower(init), last)

DecisionsCap == 5
ActionsCap == 7

\* the decisions list before the duplicates are removed
RawDecisions(messages) == Extracted(decision_patterns, messages)

_extract_decisions(messages) ==
    Take(DedupLower(RawDecisions(messages)), DecisionsCap)

\* the action_items list before the duplicates are removed: the pattern
\* matches, then the user messages that start with an imperative verb
RawActionItems(messages) ==
    LET action_items == Extracted(action_patterns, messages)
        imperative ==
            Concat([m \in DOMAIN messages |->
                IF /\ messages[m].sender = "user"
                   /\ messages[m].content # <<>>
                   /\ TokStr(LowerTok(messages[m].content[1])) \in imperative_verbs
                THEN <<Trunc(messages[m].content, EntryLimit)>>
                ELSE <<>>])
    IN  action_items \o imperative

_extract_action_items(messages) ==
    Take(DedupLower(RawActionItems(messages)), ActionsCap)

\* [s.strip() + '?' for s in content.split('?') if s.strip()]
RECURSIVE Questions(_)
Questions(text) ==
    IF text = <<>> THEN <<>>
    ELSE LET ends == {i \in DOMAIN text : Suf(text[i]) = "?"}
         IN  IF ends = {} THEN <<Marked(text, "?")>>
             ELSE LET e == CHOOSE i \in ends : \A j \in ends : i <= j
                  IN  <<SubSeq(text, 1, e)>> \o Questions(SubSeq(text, e + 1, Len(text)))

key_phrases == {"i need", "i want", "can you", "how to", "what is", "tell me about"}

QuestionsPerMessage == 2
KeyPointLimit == 100
KeyPointsCap == 5

_extract_key_points(messages) ==
    LET user == SelectSeq(messages, LAMBDA m : m.sender = "user")
        questions ==
            Concat([m \in DOMAIN user |->
                IF \E i \in DOMAIN user[m].content : Suf(user[m].content[i]) = "?"
                THEN Take(Questions(user[m].content), QuestionsPerMessage)
                ELSE <<>>])
        statements ==
            Concat([m \in DOMAIN user |->
                IF Search(key_phrases, user[m].content)
                THEN <<Trunc(user[m].content, KeyPointLimit)>>
                ELSE <<>>])
    IN  Take(questions \o statements, KeyPointsCap)

\* sum(len(m['content'].split()) for m in messages)
RECURSIVE WordCount(_)
WordCount(messages) ==
    IF messages = <<>> THEN 0
    ELSE Len(Head(messages).content) + WordCount(Tail(messages))

\* a variant: the quotient is rounded up
CeilDiv(a, b) == IF b = 0 THEN 0 ELSE (a + b - 1) \div b

FloorDiv(a, b) == IF b = 0 THEN 0 ELSE a \div b

_calculate_stats(messages) ==
    LET user_messages == SelectSeq(messages, LAMBDA m : m.sender = "user")
        ai_messages == SelectSeq(messages, LAMBDA m : m.sender = "ai")
        total_words == WordCount(messages)
        user_words == WordCount(user_messages)
        ai_words == WordCount(ai_messages)
    IN  [total_messages |-> Len(messages),
         user_messages |-> Len(user_messages),
         ai_messages |-> Len(ai_messages),
         word_count |-> total_words,
         user_word_count |-> user_words,
         ai_word_count |-> ai_words,
         avg_message_length |-> FloorDiv(total_words, Len(messages)),
         avg_user_length |-> FloorDiv(user_words, Len(user_messages)),
         avg_ai_length |-> FloorDiv(ai_words, Len(ai_messages))]

\* the result dictionary, a record of its keys: the one of an empty
\* conversation has the seven keys the early return writes
analyze_conversation(client, messages) ==
    IF messages = <<>>
    THEN [summary |-> <<T("No"), T("messages"), T("to"), T("analyze")>>,
          topics |-> <<>>,
          sentiment |-> "neutral",
          key_points |-> <<>>,
          decisions |-> <<>>,
          action_items |-> <<>>,
          word_count |-> 0]
    ELSE LET stats == _calculate_stats(messages)
         IN  [summary |-> _generate_summary(client, messages),
              topics |-> _extract_topics(messages),
              sentiment |-> _analyze_sentiment(messages),
              key_points |-> _extract_key_points(messages),
              decisions |-> _extract_decisions(messages),
              action_items |-> _extract_action_items(messages),
              total_messages |-> stats.total_messages,
              user_messages |-> stats.user_messages,
              ai_messages |-> stats.ai_messages,
              word_count |-> stats.word_count,
              user_word_count |-> stats.user_word_count,
              ai_word_count |-> stats.ai_word_count,
              avg_message_length |-> stats.avg_message_length,
              avg_user_length |-> stats.avg_user_length,
              avg_ai_length |-> stats.avg_ai_length]

-----------------------------------------------------------------------------
(* The persisted store and the requests of ConversationViewSet. *)

\* the message texts a client sends; <<>> is a blank message
UserMessages ==
    {<<T("Login"), T("login"), T("good")>>,
     <<T("fix"), T("the"), T("bad"), T("error")>>}

\* the texts ChatService.get_response returns
AiReplies == {<<T("thanks"), T("login"), T("works")>>}

\* what get_response and the creation of the AI message may do: the text of
\* a reply, or None for a null content, which Message.objects.create refuses
ReplyOutcomes == {None} \cup {Some(a) : a \in AiReplies}

\* the summaries the completion capability of the analyzer returns
AiSummaries == {<<T("AI"), T("summary")>>}

\* what ConversationAnalyzer() may hold as its client in an end request
AnalyzerClients == {None, Some(None)} \cup {Some(Some(t)) : t \in AiSummaries}

StatusChoices == {"active", "ended"}

\* Conversation(**fields): the model's defaults
NewConversation(title, now) ==
    [title |-> title, status |-> "active", created_at |-> now, ended_at |-> None,
     summary |-> None, topics |-> <<>>, sentiment |-> None]

\* The bodies a client sends to create / update / partial_update.  Each field
\* of ConversationSerializer that is not read-only may be absent (None) or given.
NoFields ==
    [title |-> None, status |-> None, ended_at |-> None, summary |-> None,
     topics |-> None, sentiment |-> None]

Payloads ==
    {NoFields,
     [NoFields EXCEPT !.status = Some("ended")],
     [NoFields EXCEPT !.status = Some("active")],
     [NoFields EXCEPT !.status = Some("bogus")],
     [NoFields EXCEPT !.ended_at = Some(None)],
     [NoFields EXCEPT !.summary = Some(Some(<<T("edited")>>))],
     [NoFields EXCEPT !.topics = Some(<<"edited">>)],
     [NoFields EXCEPT !.sentiment = Some(Some("happy"))],
     [NoFields EXCEPT !.title = Some(<<T("renamed")>>)]}

\* serializer.is_valid(): status is a ChoiceField over STATUS_CHOICES, title is
\* not blank
PayloadValid(p) ==
    /\ IsSet(p.status) => Val(p.status) \in StatusChoices
    /\ IsSet(p.title) => Val(p.title) # <<>>

\* ModelSerializer.update / create: every given field is assigned
ApplyPayload(row, p) ==
    [title |-> IF IsSet(p.title) THEN Val(p.title) ELSE row.title,
     status |-> IF IsSet(p.status) THEN Val(p.status) ELSE row.status,
     created_at |-> row.created_at,
     ended_at |-> IF IsSet(p.ended_at) THEN Val(p.ended_at) ELSE row.ended_at,
     summary |-> IF IsSet(p.summary) THEN Val(p.summary) ELSE row.summary,
     topics |-> IF IsSet(p.topics) THEN Val(p.topics) ELSE row.topics,
     sentiment |-> IF IsSet(p.sentiment) THEN Val(p.sentiment) ELSE row.sentiment]

\* conversation.messages.values('content', 'sender'), ordered by timestamp
MessagesOf(table, id) ==
    LET own == SelectSeq(table, LAMBDA m : m.conversation = id)
    IN  [i \in DOMAIN own |-> [content |-> own[i].content, sender |-> own[i].sender]]

NewMessage(id, content, sender) ==
    [conversation |-> id, content |-> content, sender |-> sender]

\* user_message[:50] + "..." if len(user_message) > 50 else user_message
TitleLimit == 50
TitleOf(user_message) ==
    IF CharLen(user_message) > TitleLimit
    THEN Marked(Trunc(user_message, TitleLimit), "...")
    ELSE user_message

Response(op, code, id) == [op |-> op, code |-> code, id |-> id]

CanServe == clock < MaxOps

\* the messages chat creates: the user's, then the AI's unless its creation
\* raises
ChatMessages(id, user_message, ai_response) ==
    <<NewMessage(id, user_message, "user")>>
      \o (IF IsSet(ai_response) THEN <<NewMessage(id, Val(ai_response), "ai")>> ELSE <<>>)

\* 201, or the 500 of "except Exception"
ChatCode(ai_response) == IF IsSet(ai_response) THEN 201 ELSE 500

\* POST /api/conversations/chat/
\* conversation_id: None when absent or null; 0 is falsy like None
Chat(user_message, conversation_id, ai_response) ==
    /\ CanServe
    /\ UNCHANGED queryVars
    /\ UNCHANGED relVars
    /\ UNCHANGED anaVars
    /\ UNCHANGED svcVars
    /\ clock' = clock + 1
    /\ UNCHANGED reqs
    /\ UNCHANGED queries
    /\ IF user_message = <<>>
       THEN /\ resp' = Response("chat", 400, 0)
            /\ UNCHANGED <<convs, msgs, nextId>>
       ELSE IF IsSet(conversation_id) /\ Val(conversation_id) # 0
       THEN LET id == Val(conversation_id)
            IN  IF id \notin DOMAIN convs
                THEN /\ resp' = Response("chat", 404, 0)
                     /\ UNCHANGED <<convs, msgs, nextId>>
                ELSE IF convs[id].status = "ended"
                THEN /\ resp' = Response("chat", 400, id)
                     /\ UNCHANGED <<convs, msgs, nextId>>
                ELSE /\ msgs' = msgs \o ChatMessages(id, user_message, ai_response)
                     /\ resp' = Response("chat", ChatCode(ai_response), id)
                     /\ UNCHANGED <<convs, nextId>>
       ELSE /\ nextId <= MaxConvs
            /\ convs' = convs @@ (nextId :> NewConversation(TitleOf(user_message), clock'))
            /\ nextId' = nextId + 1
            /\ msgs' = msgs \o ChatMessages(nextId, user_message, ai_response)
            /\ resp' = Response("chat", ChatCode(ai_response), nextId)

\* POST /api/conversations/{id}/end/
\* raises says that the analysis or the save raises
End(id, client, raises) ==
    /\ CanServe
    /\ UNCHANGED queryVars
    /\ UNCHANGED relVars
    /\ UNCHANGED anaVars
    /\ UNCHANGED svcVars
    /\ clock' = clock + 1
    /\ UNCHANGED reqs
    /\ UNCHANGED <<msgs, queries, nextId>>
    /\ IF id \notin DOMAIN convs
       THEN \* get_object raises Http404, which "except Exception" answers
            /\ resp' = Response("end", 500, 0)
            /\ UNCHANGED convs
       ELSE IF convs[id].status = "ended"
       THEN /\ resp' = Response("end", 400, id)
            /\ UNCHANGED convs
       ELSE IF raises
       THEN /\ resp' = Response("end", 500, id)
            /\ UNCHANGED convs
       ELSE LET analysis == analyze_conversation(client, MessagesOf(msgs, id))
            IN  /\ convs' = [convs EXCEPT ![id] =
                        [@ EXCEPT !.status = "ended",
                                  !.ended_at = Some(clock'),
                                  !.summary = Some(analysis.summary),
                                  !.topics = analysis.topics,
                                  !.sentiment = Some(analysis.sentiment)]]
                /\ resp' = Response("end", 200, id)

\* POST /api/conversations/ (ModelViewSet.create with ConversationSerializer)
Create(p) ==
    /\ CanServe
    /\ UNCHANGED queryVars
    /\ UNCHANGED relVars
    /\ UNCHANGED anaVars
    /\ UNCHANGED svcVars
    /\ clock' = clock + 1
    /\ UNCHANGED reqs
    /\ UNCHANGED <<msgs, queries>>
    /\ IF ~PayloadValid(p)
       THEN /\ resp' = Response("create", 400, 0)
            /\ UNCHANGED <<convs, nextId>>
       ELSE /\ nextId <= MaxConvs
            /\ convs' = convs @@
                 (nextId :> ApplyPayload(
                     NewConversation(<<T("New"), T("Conversation")>>, clock'), p))
            /\ nextId' = nextId + 1
            /\ resp' = Response("create", 201, nextId)

\* PUT / PATCH /api/conversations/{id}/ (ModelViewSet.update, partial_update)
Update(id, p) ==
    /\ CanServe
    /\ UNCHANGED queryVars
    /\ UNCHANGED relVars
    /\ UNCHANGED anaVars
    /\ UNCHANGED svcVars
    /\ clock' = clock + 1
    /\ UNCHANGED reqs
    /\ UNCHANGED <<msgs, queries, nextId>>
    /\ IF id \notin DOMAIN convs
       THEN /\ resp' = Response("update", 404, 0)
            /\ UNCHANGED convs
       ELSE IF ~PayloadValid(p)
       THEN /\ resp' = Response("update", 400, id)
            /\ UNCHANGED convs
       ELSE /\ convs' = [convs EXCEPT ![id] = ApplyPayload(@, p)]
            /\ resp' = Response("update", 200, id)

\* DELETE /api/conversations/{id}/ (ModelViewSet.destroy; messages cascade)
Destroy(id) ==
    /\ CanServe
    /\ UNCHANGED queryVars
    /\ UNCHANGED relVars
    /\ UNCHANGED anaVars
    /\ UNCHANGED svcVars
    /\ clock' = clock + 1
    /\ UNCHANGED reqs
    /\ UNCHANGED <<queries, nextId>>
    /\ IF id \notin DOMAIN convs
       THEN /\ resp' = Response("destroy", 404, 0)
            /\ UNCHANGED <<convs, msgs>>
       ELSE /\ convs' = [i \in DOMAIN convs \ {id} |-> convs[i]]
            /\ msgs' = SelectSeq(msgs, LAMBDA m : m.conversation # id)
            /\ resp' = Response("destroy", 204, id)

-----------------------------------------------------------------------------
(* QueryEngine.  A conversation object is a record                          *)
(*   [id, title, created_at, summary, topics, sentiment, messages].         *)
(* The capabilities the engine calls are outside the repository; what they  *)
(* do in one run is the record env:                                         *)
(*   key_ok      OPENAI_API_KEY is set to a usable value                    *)
(*   openai_ok   importing and constructing the OpenAI client succeeds      *)
(*   st_ok       importing and loading sentence_transformers succeeds       *)
(*   remote_err  the remote embeddings call raises                          *)
(*   local_err   the local embeddings model raises                          *)
(*   tfidf_err   TfidfVectorizer.fit_transform raises                       *)
(*   emb         which embedding function the embedder computes             *)
(*   tfv         which term weighting the vectorizer computes               *)
(*   chat        the reply of the completion call, None when it raises      *)

ZeroScore == <<0, 1>>

\* vectors an embedder may return (any sign), and rows of a TF-IDF matrix
\* (no negative entry); every vector has an integer length
EmbVecs == << <<1, 0>>, <<3, 4>>, <<0, 1>>, <<-3, 4>>, <<-1, 0>>, <<4, 3>>, <<0, 0>> >>
TfidfVecs == << <<1, 0>>, <<24, 7>>, <<3, 4>>, <<0, 0>>, <<0, 1>>, <<4, 3>> >>

DotP(u, v) == u[1] * v[1] + u[2] * v[2]
VecLen(v) == CHOOSE n \in 0..25 : n * n = DotP(v, v)

\* sklearn.metrics.pairwise.cosine_similarity of two rows: both are normalised
\* (a zero row is left as it is) and multiplied; the score is not clipped
CosineSimilarity(u, v) ==
    LET nu == IF VecLen(u) = 0 THEN 1 ELSE VecLen(u)
        nv == IF VecLen(v) = 0 THEN 1 ELSE VecLen(v)
    IN  <<DotP(u, v), nu * nv>>

\* the embedding functions: each maps a text to one vector
Embed(emb, text) == EmbVecs[((CharLen(text) + Len(text) * emb) % Len(EmbVecs)) + 1]

\* the term weightings: each maps a document to one non-negative row
TfidfRow(tfv, text) == TfidfVecs[((CharLen(text) + Len(text) * tfv) % Len(TfidfVecs)) + 1]

\* QueryEngine.__init__ before it calls _initialize_client
NewEngine == [provider |-> "openai", client |-> FALSE, embeddings_model |-> FALSE]

\* QueryEngine.__init__ -> _initialize_local_embeddings
_initialize_local_embeddings(env) ==
    IF env.st_ok
    THEN [provider |-> "local", client |-> FALSE, embeddings_model |-> TRUE]
    ELSE [provider |-> "keyword", client |-> FALSE, embeddings_model |-> FALSE]

\* QueryEngine.__init__ -> _initialize_client
_initialize_client(env) ==
    IF env.key_ok
    THEN IF env.openai_ok
         THEN [provider |-> "openai", client |-> TRUE, embeddings_model |-> FALSE]
         ELSE _initialize_local_embeddings(env)
    ELSE _initialize_local_embeddings(env)

\* the text representation of one conversation
MessageLimit == 10
ContentLimit == 500
ConvText(conv) ==
    LET messages == Take(conv.messages, MessageLimit)
        message_text == Concat([i \in DOMAIN messages |-> messages[i].content])
        topics == conv.topics
    IN  Marked(conv.title, ".")
        \o (IF IsSet(conv.summary) /\ Val(conv.summary) # <<>>
            THEN Marked(Val(conv.summary), ".") ELSE <<>>)
        \o (IF topics # <<>>
            THEN << <<"", "Topics", ":">> >>
                 \o [i \in DOMAIN topics |->
                        <<"", topics[i], IF i = Len(topics) THEN "." ELSE ",">>]
            ELSE <<>>)
        \o << <<"", "Content", ":">> >>
        \o Trunc(message_text, ContentLimit)

\* the except branch of _calculate_keyword_similarity: word overlap
JaccardScores(query, texts) ==
    LET query_words == TokenSet(query)
    IN  [i \in DOMAIN texts |->
            LET text_words == TokenSet(texts[i])
                intersection == Cardinality(query_words \cap text_words)
                union == Cardinality(query_words \cup text_words)
            IN  IF union > 0 THEN <<intersection, union>> ELSE ZeroScore]

\* every scorer returns [scores, strategy]: the list the code returns, and the
\* branch that computed it
_calculate_keyword_similarity(env, query, texts) ==
    IF env.tfidf_err
    THEN [scores |-> JaccardScores(query, texts), strategy |-> "jaccard"]
    ELSE [scores |-> [i \in DOMAIN texts |->
                        CosineSimilarity(TfidfRow(env.tfv, query),
                                         TfidfRow(env.tfv, texts[i]))],
          strategy |-> "tfidf"]

_calculate_local_similarity(env, query, texts) ==
    IF env.local_err
    THEN _calculate_keyword_similarity(env, query, texts)
    ELSE [scores |-> [i \in DOMAIN texts |->
                        CosineSimilarity(Embed(env.emb, query),
                                         Embed(env.emb, texts[i]))],
          strategy |-> "local"]

BatchLimit == 20

\* a bug: the scores of the batch are returned as they are
PadNothing(similarities, texts) == similarities

\* "Pad with zeros if we had more texts than we processed"
PadWithZeros(similarities, texts) ==
    IF Len(texts) > BatchLimit
    THEN similarities \o [i \in 1..(Len(texts) - BatchLimit) |-> ZeroScore]
    ELSE similarities

\* a bug: the remote strategy falls back to the local embedding strategy
OpenaiFallbackToLocal(env, query, texts) ==
    _calculate_local_similarity(env, query, texts)

\* the except branch of _calculate_openai_similarity
OpenaiFallback(env, query, texts) ==
    _calculate_keyword_similarity(env, query, texts)

_calculate_openai_similarity(env, query, texts) ==
    IF env.remote_err
    THEN OpenaiFallback(env, query, texts)
    ELSE LET batch == Take(texts, BatchLimit)
             similarities == [i \in DOMAIN batch |->
                                CosineSimilarity(Embed(env.emb, query),
                                                 Embed(env.emb, batch[i]))]
         IN  [scores |-> PadWithZeros(similarities, texts),
              strategy |-> "openai"]

\* the dispatch on self.provider
SimilarityScores(eng, env, query, texts) ==
    IF eng.provider = "openai" THEN _calculate_openai_similarity(env, query, texts)
    ELSE IF eng.provider = "local" THEN _calculate_local_similarity(env, query, texts)
    ELSE _calculate_keyword_similarity(env, query, texts)

KeywordThreshold == <<1, 10>>
EmbeddingThreshold == <<3, 10>>

\* min_threshold = 0.1 if self.provider == 'keyword' else 0.3
MinThreshold(eng) ==
    IF eng.provider = "keyword" THEN KeywordThreshold ELSE EmbeddingThreshold

\* zip(conversations, scores): as long as the shorter of the two
Zip(conversations, scores) ==
    [i \in 1..Min2(Len(conversations), Len(scores)) |->
        [conv |-> conversations[i], score |-> scores[i]]]

\* [scored, relevant]: the scorer's answer, and the list the method returns
_find_relevant_conversations(eng, env, query, conversations) ==
    LET conv_texts == [i \in DOMAIN conversations |-> ConvText(conversations[i])]
        scored == SimilarityScores(eng, env, query, conv_texts)
        scored_convs == SortDesc(Zip(conversations, scored.scores))
        min_threshold == MinThreshold(eng)
    IN  [scored |-> scored,
         relevant |-> SelectSeq(scored_convs,
                                LAMBDA x : ScoreGT(x.score, min_threshold))]

NoConversationsResponse == "No conversations found to query."
NotFoundResponse == "I couldn't find any relevant conversations matching your query. Try different keywords or check if you have any completed conversations."

TopicsOf(relevant_convs) ==
    UNION {Range(relevant_convs[i].conv.topics) : i \in DOMAIN relevant_convs}

\* a response is <<kind, content>>.
\* the deterministic template; list(all_topics)[:5] is the whole set while it
\* has at most 5 elements, as every set of the catalogue has
_generate_basic_response(relevant_convs) ==
    LET top == relevant_convs[1]
    IN  <<"basic",
        [count |-> Len(relevant_convs),
         title |-> top.conv.title,
         match |-> top.score,
         summary |-> top.conv.summary,
         topics |-> top.conv.topics,
         tone |-> top.conv.sentiment,
         covering |-> TopicsOf(SubSeq(relevant_convs, 2, Min2(4, Len(relevant_convs))))]>>

\* a bug: the two canned responses are mixed up
_generate_query_response_mixup(eng, env, relevant_convs) ==
    IF relevant_convs = <<>> THEN <<"canned", NoConversationsResponse>>
    ELSE _generate_basic_response(relevant_convs)

_generate_query_response(eng, env, relevant_convs) ==
    IF relevant_convs = <<>> THEN <<"canned", NotFoundResponse>>
    ELSE IF eng.client /\ eng.provider = "openai" /\ IsSet(env.chat)
         THEN <<"completion", Val(env.chat)>>
         ELSE _generate_basic_response(relevant_convs)

\* the sets list(all_topics)[:3] may hold: set order is not defined
TopicPicks(relevant_convs) ==
    LET all_topics == TopicsOf(Take(relevant_convs, 3))
    IN  {pick \in SUBSET all_topics :
            Cardinality(pick) = Min2(3, Cardinality(all_topics))}

_get_related_suggestions(relevant_convs, pick) ==
    LET all_topics == TopicsOf(Take(relevant_convs, 3))
        topic == IF all_topics # {}
                 THEN << [type |-> "topic", topics |-> pick, date |-> 0] >>
                 ELSE <<>>
        time == IF relevant_convs # <<>>
                THEN << [type |-> "time", topics |-> {},
                         date |-> relevant_convs[1].conv.created_at] >>
                ELSE <<>>
    IN  Take(topic \o time, 3)

TopRelevant == 5

ConvData(x) ==
    [id |-> x.conv.id, title |-> x.conv.title, created_at |-> x.conv.created_at,
     summary |-> x.conv.summary, relevance_score |-> x.score,
     message_count |-> Len(x.conv.messages), topics |-> x.conv.topics,
     sentiment |-> x.conv.sentiment]

\* the returned dictionary (response, conversations, relevant_conversation_ids,
\* related_suggestions: None when the key is absent), with the scorer's answer
\* (scored) and the full relevant list it was built from
query_conversations(eng, env, query, conversations, pick) ==
    IF conversations = <<>>
    THEN [response |-> <<"canned", NoConversationsResponse>>,
          conversations |-> <<>>,
          relevant_conversation_ids |-> <<>>,
          related_suggestions |-> None,
          scored |-> None,
          relevant |-> <<>>]
    ELSE LET found == _find_relevant_conversations(eng, env, query, conversations)
             relevant_convs == found.relevant
             top == Take(relevant_convs, TopRelevant)
         IN  [response |-> _generate_query_response(eng, env, relevant_convs),
              conversations |-> [i \in DOMAIN top |-> ConvData(top[i])],
              relevant_conversation_ids |-> [i \in DOMAIN top |-> top[i].conv.id],
              related_suggestions |-> Some(_get_related_suggestions(relevant_convs, pick)),
              scored |-> Some(found.scored),
              relevant |-> relevant_convs]

-----------------------------------------------------------------------------
(* One run of QueryEngine: construction, then query_conversations.         *)
(* The created_at of a catalogue conversation is in hours.                  *)

\* candidates handed to one query
MaxCands == 22
\* embedding functions and term weightings the capabilities may compute
MaxEmb == 2
MaxTfv == 1

\* the conversations of the corpora, without their ids
ConvCatalog ==
    << [title |-> <<T("Login"), T("bug")>>,
        created_at |-> 0,
        summary |-> Some(<<T("Brief"), <<"", "discussion", ":">>, T("fix"), T("login")>>),
        topics |-> <<"login", "error">>,
        sentiment |-> Some("negative"),
        messages |-> << [content |-> <<T("fix"), T("login"), T("error")>>, sender |-> "user"],
                        [content |-> <<T("login"), T("fixed")>>, sender |-> "ai"] >>],
       [title |-> <<T("pricing")>>,
        created_at |-> 150,
        summary |-> None,
        topics |-> <<>>,
        sentiment |-> None,
        messages |-> <<>>],
       [title |-> <<T("good"), T("pricing"), T("plan")>>,
        created_at |-> 160,
        summary |-> Some(<<T("AI"), T("summary")>>),
        topics |-> <<"pricing", "plan", "login">>,
        sentiment |-> Some("very positive"),
        messages |-> << [content |-> <<T("good"), T("pricing")>>, sender |-> "user"] >>],
       [title |-> <<T("login")>>,
        created_at |-> 800,
        summary |-> Some(<<>>),
        topics |-> <<"login">>,
        sentiment |-> Some("positive"),
        messages |-> << [content |-> <<T("login")>>, sender |-> "user"] >>],
       [title |-> <<T("plan"), T("the"), T("release")>>,
        created_at |-> 2400,
        summary |-> Some(<<T("Conversation"), T("with"), T("AI"), T("assistant")>>),
        topics |-> <<"release", "plan">>,
        sentiment |-> Some("negative"),
        messages |-> << [content |-> <<T("release"), T("plan"), T("release"), T("plan")>>,
                         sender |-> "user"] >>] >>

WithId(c, id) ==
    [id |-> id, title |-> c.title, created_at |-> c.created_at, summary |-> c.summary,
     topics |-> c.topics, sentiment |-> c.sentiment, messages |-> c.messages]

\* a corpus of n conversations with the ids 1..n
Corpus(n, stride, offset) ==
    [i \in 1..n |->
        WithId(ConvCatalog[((stride * i + offset) % Len(ConvCatalog)) + 1], i)]

Queries == {<<T("login")>>, <<T("pricing"), T("Plan")>>}

QueryInputs ==
    {[query |-> q, conversations |-> Corpus(n, stride, offset)] :
        q \in Queries, n \in 0..MaxCands, stride \in 1..2, offset \in 0..2}

\* what the capabilities do in one query; a capability that is not called in
\* the run does nothing
RunEnvs(eng) ==
    {env \in [remote_err : BOOLEAN, local_err : BOOLEAN, tfidf_err : BOOLEAN,
              emb : 0..MaxEmb, tfv : 0..MaxTfv,
              chat : {None, Some(<<T("AI"), T("answer")>>)}] :
        LET remote == eng.provider = "openai"
            local == eng.provider = "local"
            keyword == \/ eng.provider = "keyword"
                       \/ remote /\ env.remote_err
                       \/ local /\ env.local_err
        IN  /\ env.remote_err => remote
            /\ env.local_err => local
            /\ env.tfidf_err => keyword
            /\ env.emb # 0 => (remote \/ local) /\ ~keyword
            /\ env.tfv # 0 => keyword /\ ~env.tfidf_err
            /\ IsSet(env.chat) => remote}

StoreIdle ==
    /\ convs = <<>> /\ msgs = <<>> /\ queries = <<>>
    /\ nextId = 1 /\ clock = 0 /\ resp = Response("none", 0, 0)
    /\ reqs = <<>>

RelOff == rpc = "off" /\ rin = <<>> /\ rout = <<>>
QueryOff == qpc = "off" /\ qenv = <<>> /\ qeng = <<>> /\ qin = <<>> /\ qout = <<>>
AnaOff == apc = "off" /\ ain = <<>> /\ aout = <<>>
SvcOff == spc = "off" /\ senv = <<>> /\ svc = <<>> /\ sin = <<>> /\ sout = <<>>

InitQuery ==
    /\ StoreIdle
    /\ AnaOff
    /\ SvcOff
    /\ RelOff
    /\ qpc = "new"
    /\ qin \in QueryInputs
    /\ qenv = <<>> /\ qeng = NewEngine /\ qout = <<>>

\* QueryEngine()
Construct(key_ok, openai_ok, st_ok) ==
    /\ qpc = "new"
    /\ qeng' = _initialize_client([key_ok |-> key_ok, openai_ok |-> openai_ok,
                                   st_ok |-> st_ok])
    /\ qpc' = "ready"
    /\ UNCHANGED <<qenv, qin, qout>>
    /\ UNCHANGED storeVars
    /\ UNCHANGED relVars
    /\ UNCHANGED anaVars
    /\ UNCHANGED svcVars

\* query_engine.query_conversations(query, conversations)
QueryConversations(env) ==
    /\ qpc = "ready"
    /\ \E pick \in TopicPicks(
              IF qin.conversations = <<>> THEN <<>>
              ELSE _find_relevant_conversations(qeng, env, qin.query,
                                                qin.conversations).relevant) :
          qout' = query_conversations(qeng, env, qin.query, qin.conversations, pick)
    /\ qenv' = env
    /\ qpc' = "done"
    /\ UNCHANGED <<qeng, qin>>
    /\ UNCHANGED storeVars
    /\ UNCHANGED relVars
    /\ UNCHANGED anaVars
    /\ UNCHANGED svcVars

NextQuery ==
    \/ \E key_ok \in BOOLEAN, openai_ok \in BOOLEAN, st_ok \in BOOLEAN :
          Construct(key_ok, openai_ok, st_ok)
    \/ \E env \in RunEnvs(qeng) : QueryConversations(env)

SpecQuery == InitQuery /\ [][NextQuery]_vars

-----------------------------------------------------------------------------
(* SuggestionsService.get_related_conversations *)

\* timedelta.days of a difference given in hours: the floor of the days
DaysOf(hours) == hours \div 24

Abs(x) == IF x < 0 THEN -x ELSE x

\* truth of an optional string: neither None nor ""
Truthy(opt) == IsSet(opt) /\ Val(opt) # ""

_similar_sentiment(sent1, sent2) ==
    LET positive_sentiments == {"positive", "very positive"}
        negative_sentiments == {"negative", "very negative"}
    IN  \/ sent1 \in positive_sentiments /\ sent2 \in positive_sentiments
        \/ sent1 \in negative_sentiments /\ sent2 \in negative_sentiments

\* word overlap of two texts, <<intersection, union>>
_calculate_text_similarity(text1, text2) ==
    LET words1 == TokenSet(text1)
        words2 == TokenSet(text2)
        intersection == Cardinality(words1 \cap words2)
        union == Cardinality(words1 \cup words2)
    IN  IF words1 = {} \/ words2 = {} THEN ZeroScore
        ELSE IF union > 0 THEN <<intersection, union>> ELSE ZeroScore

\* f"{conv.title} {conv.summary or ''}"
TitleAndSummary(conv) ==
    conv.title \o (IF IsSet(conv.summary) THEN Val(conv.summary) ELSE <<>>)

\* the four terms, the weighted ones as <<num, den>>, the others in hundredths
TopicTerm(conv1, conv2) ==
    IF conv1.topics # <<>> /\ conv2.topics # <<>>
    THEN LET topics1 == Range(conv1.topics)
             topics2 == Range(conv2.topics)
         IN  <<Cardinality(topics1 \cap topics2), Cardinality(topics1 \cup topics2)>>
    ELSE ZeroScore

SentimentTerm(conv1, conv2) ==
    IF Truthy(conv1.sentiment) /\ Truthy(conv2.sentiment)
    THEN IF Val(conv1.sentiment) = Val(conv2.sentiment) THEN 20
         ELSE IF _similar_sentiment(Val(conv1.sentiment), Val(conv2.sentiment)) THEN 10
         ELSE 0
    ELSE 0

TemporalTerm(conv1, conv2) ==
    LET time_diff == Abs(DaysOf(conv1.created_at - conv2.created_at))
    IN  IF time_diff < 7 THEN 15
        ELSE IF time_diff < 30 THEN 10
        ELSE IF time_diff < 90 THEN 5
        ELSE 0

\* score = topic * 0.5 + sentiment + temporal + text * 0.15, capped at 1.0
_calculate_similarity_score(conv1, conv2) ==
    LET topic == TopicTerm(conv1, conv2)
        text == _calculate_text_similarity(TitleAndSummary(conv1), TitleAndSummary(conv2))
        num == 50 * topic[1] * text[2]
               + (SentimentTerm(conv1, conv2) + TemporalTerm(conv1, conv2))
                 * topic[2] * text[2]
               + 15 * text[1] * topic[2]
        den == 100 * topic[2] * text[2]
    IN  IF num > den THEN <<1, 1>> ELSE <<num, den>>

\* list(shared_topics)[:3]
ReasonTopicsCap == 3

\* one entry of the reasons list: what it says and what it quotes
ReasonPart(kind, topics, sentiment) ==
    [kind |-> kind, topics |-> topics, sentiment |-> sentiment]

\* the reasons in the order they are appended; the returned string is their
\* join with the separator, or "Similar content" when there are none.  The
\* shared topics are quoted as a set (a set is iterated in no fixed order);
\* of more than three, any three are quoted.
_get_similarity_reason(conv1, conv2) ==
    LET shared_topics == Range(conv1.topics) \cap Range(conv2.topics)
        quoted == IF Cardinality(shared_topics) <= ReasonTopicsCap THEN shared_topics
                  ELSE CHOOSE sub \in SUBSET shared_topics :
                          Cardinality(sub) = ReasonTopicsCap
        time_diff == Abs(DaysOf(conv1.created_at - conv2.created_at))
        reasons ==
            (IF conv1.topics # <<>> /\ conv2.topics # <<>> /\ shared_topics # {}
             THEN <<ReasonPart("Shared topics", quoted, "")>> ELSE <<>>)
            \o (IF /\ Truthy(conv1.sentiment) /\ Truthy(conv2.sentiment)
                   /\ Val(conv1.sentiment) = Val(conv2.sentiment)
                THEN <<ReasonPart("Similar sentiment", {}, Val(conv1.sentiment))>>
                ELSE <<>>)
            \o (IF time_diff < 7 THEN <<ReasonPart("From the same week", {}, "")>>
                ELSE IF time_diff < 30 THEN <<ReasonPart("From the same month", {}, "")>>
                ELSE <<>>)
    IN  IF reasons # <<>> THEN reasons
        ELSE <<ReasonPart("Similar content", {}, "")>>

\* a bug: every candidate with a score above 0 is kept
SuggestionThresholdZero == <<0, 1>>

\* "if score > 0.1:  # Minimum threshold"
SuggestionThreshold == <<1, 10>>

\* a bug: the current conversation is not skipped
IsCandidateWithTopics(current_conversation, conv) == conv.topics # <<>>

\* the two skips of the loop: the current conversation, and those without
\* analysis
IsCandidate(current_conversation, conv) ==
    /\ conv.id # current_conversation.id
    /\ conv.topics # <<>>

\* limit is a count (0 or more)
get_related_conversations(current_conversation, all_conversations, limit) ==
    IF all_conversations = <<>> THEN <<>>
    ELSE LET candidates ==
                 SelectSeq(all_conversations,
                     LAMBDA conv : IsCandidate(current_conversation, conv))
             scored == [i \in DOMAIN candidates |->
                          [conversation |-> candidates[i],
                           score |-> _calculate_similarity_score(
                                        current_conversation, candidates[i]),
                           reason |-> _get_similarity_reason(
                                        current_conversation, candidates[i])]]
             scored_conversations ==
                 SortDesc(SelectSeq(scored,
                     LAMBDA x : ScoreGT(x.score, SuggestionThreshold)))
             top == Take(scored_conversations, limit)
         IN  [i \in DOMAIN top |->
                [id |-> top[i].conversation.id,
                 title |-> top[i].conversation.title,
                 topics |-> top[i].conversation.topics,
                 sentiment |-> top[i].conversation.sentiment,
                 created_at |-> top[i].conversation.created_at,
                 similarity_score |-> top[i].score,
                 reason |-> top[i].reason]]

\* conversations of one corpus, and the largest limit asked for
MaxCorpus == 5
MaxLimit == 3

\* the target is a conversation of the corpus, or one outside it
Targets(corpus) ==
    Range(corpus) \cup {WithId(ConvCatalog[k], Len(corpus) + 1) : k \in DOMAIN ConvCatalog}

InputsFor(corpus) ==
    {[current |-> t, all |-> corpus, limit |-> limit] :
        t \in Targets(corpus), limit \in 0..MaxLimit}

RelatedInputs ==
    UNION {InputsFor(Corpus(n, stride, offset)) :
              n \in 0..MaxCorpus, stride \in 1..2, offset \in 0..2}

InitRelated ==
    /\ StoreIdle
    /\ AnaOff
    /\ SvcOff
    /\ QueryOff
    /\ rpc = "input"
    /\ rin \in RelatedInputs
    /\ rout = <<>>

\* suggestions_service.get_related_conversations(current, all, limit)
GetRelated ==
    /\ rpc = "input"
    /\ rout' = get_related_conversations(rin.current, rin.all, rin.limit)
    /\ rpc' = "done"
    /\ UNCHANGED rin
    /\ UNCHANGED storeVars
    /\ UNCHANGED queryVars
    /\ UNCHANGED anaVars
    /\ UNCHANGED svcVars

NextRelated == GetRelated

SpecRelated == InitRelated /\ [][NextRelated]_vars

-----------------------------------------------------------------------------
(* SuggestionsService.get_topic_based_suggestions *)

\* set(t.lower() for t in topics)
TopicSet(topics) == {LowerWord(topics[i]) : i \in DOMAIN topics}

\* "limit=5" of the signature
DefaultLimit == 5

\* a bug: the matches are cut to the limit in corpus order
TopMatchesUnsorted(scored_conversations, limit) == Take(scored_conversations, limit)

\* scored_conversations.sort(key=score, reverse=True), then [:limit]
TopMatches(scored_conversations, limit) == Take(SortDesc(scored_conversations), limit)

get_topic_based_suggestions(topics, all_conversations, limit) ==
    IF topics = <<>> THEN <<>>
    ELSE LET topic_set == TopicSet(topics)
             analysed == SelectSeq(all_conversations, LAMBDA conv : conv.topics # <<>>)
             overlapping ==
                 SelectSeq(analysed,
                     LAMBDA conv : Cardinality(topic_set \cap TopicSet(conv.topics)) > 0)
             scored == [i \in DOMAIN overlapping |->
                          [conversation |-> overlapping[i],
                           score |-> <<Cardinality(topic_set
                                           \cap TopicSet(overlapping[i].topics)),
                                       Cardinality(topic_set)>>,
                           matching_topics |->
                               topic_set \cap TopicSet(overlapping[i].topics)]]
             top == TopMatches(scored, limit)
         IN  [i \in DOMAIN top |->
                [id |-> top[i].conversation.id,
                 title |-> top[i].conversation.title,
                 topics |-> top[i].conversation.topics,
                 created_at |-> top[i].conversation.created_at,
                 matching_topics |-> top[i].matching_topics,
                 relevance |-> top[i].score]]

\* conversations of one corpus of the topic search
MaxTopicCorpus == 6

\* the topic lists conversations carry: none, as the analyzer writes them, and
\* as a client may write them through the update operation
TopicLists ==
    << <<"login">>, <<"login", "plan">>, <<>>, <<"Login">>, <<"pricing">> >>

WithTopics(c, topics) == [c EXCEPT !.topics = topics]

\* n conversations with the ids 1..n; stride 0 gives them all the same topics
TopicCorpus(n, stride, offset) ==
    [i \in 1..n |->
        WithId(WithTopics(ConvCatalog[1],
                          TopicLists[((stride * i + offset) % Len(TopicLists)) + 1]), i)]

TopicInputs ==
    {[topics |-> topics, all |-> TopicCorpus(n, stride, offset), limit |-> limit] :
        topics \in Range(TopicLists) \cup {<<"release">>},
        n \in 0..MaxTopicCorpus, stride \in 0..2, offset \in 0..(Len(TopicLists) - 1),
        limit \in (0..MaxLimit) \cup {DefaultLimit}}

InitTopics ==
    /\ StoreIdle
    /\ AnaOff
    /\ SvcOff
    /\ QueryOff
    /\ rpc = "input"
    /\ rin \in TopicInputs
    /\ rout = <<>>

\* suggestions_service.get_topic_based_suggestions(topics, all, limit)
GetTopicBased ==
    /\ rpc = "input"
    /\ rout' = get_topic_based_suggestions(rin.topics, rin.all, rin.limit)
    /\ rpc' = "done"
    /\ UNCHANGED rin
    /\ UNCHANGED storeVars
    /\ UNCHANGED queryVars
    /\ UNCHANGED anaVars
    /\ UNCHANGED svcVars

NextTopics == GetTopicBased

SpecTopics == InitTopics /\ [][NextTopics]_vars

-----------------------------------------------------------------------------
(* SuggestionsService.get_trending_topics.  Times are hours; "now" is the  *)
(* datetime.now() the call reads.                                          *)

\* topic_counter.most_common(10)
TrendingCap == 10

\* round(num / den * 100, 1) in tenths: the nearest tenth, a tie going to
\* the even one
RoundPercent(num, den) ==
    LET q == (1000 * num) \div den
        r == (1000 * num) % den
    IN  IF 2 * r > den THEN q + 1
        ELSE IF 2 * r < den THEN q
        ELSE IF q % 2 = 0 THEN q ELSE q + 1

\* every topic entry of the conversations, in order (Counter.update per list)
TopicEntries(convs_) == Concat([i \in DOMAIN convs_ |-> convs_[i].topics])

get_trending_topics(conversations, days, now) ==
    LET cutoff_date == now - 24 * days
        recent_convs == SelectSeq(conversations, LAMBDA c : c.created_at >= cutoff_date)
    IN  IF recent_convs = <<>> THEN <<>>
        ELSE LET entries == TopicEntries(recent_convs)
                 keys == FirstSeen(entries)
                 topic_counter == [i \in DOMAIN keys |->
                                     [item |-> keys[i],
                                      score |-> <<CountIn(entries, keys[i]), 1>>]]
                 most_common == Take(SortDesc(topic_counter), TrendingCap)
             IN  [i \in DOMAIN most_common |->
                    [topic |-> most_common[i].item,
                     conversation_count |-> most_common[i].score[1],
                     percentage |-> RoundPercent(most_common[i].score[1],
                                                 Len(recent_convs))]]

\* conversations of one corpus of the trending call
MaxTrendCorpus == 4

\* the topic lists conversations carry: as the analyzer writes them (up to 7
\* distinct topics), none, and one a client wrote through the update operation
TrendTopicLists ==
    << <<"login", "plan">>,
       <<"alpha", "beta", "gamma", "delta", "epsilon", "zeta", "theta">>,
       <<"login">>,
       <<"kappa", "lambda", "sigma", "omega", "login">>,
       <<>>,
       <<"login", "login">> >>

\* the time of the call and the creation times around the windows asked for
TrendNow == 1440
TrendCreated == <<1440, 1400, 1272, 1271, 720, 719, 0>>
TrendDays == {1, 7, 30}

TrendCorpus(n, stride, offset, age) ==
    [i \in 1..n |->
        [WithId(WithTopics(ConvCatalog[1],
                           TrendTopicLists[((stride * i + offset) % Len(TrendTopicLists)) + 1]),
                i)
         EXCEPT !.created_at = TrendCreated[((i + age) % Len(TrendCreated)) + 1]]]

TrendInputs ==
    {[conversations |-> TrendCorpus(n, stride, offset, age), days |-> days, now |-> TrendNow] :
        n \in 0..MaxTrendCorpus, stride \in 0..1,
        offset \in 0..(Len(TrendTopicLists) - 1),
        age \in 0..(Len(TrendCreated) - 1), days \in TrendDays}

InitTrending ==
    /\ StoreIdle
    /\ AnaOff
    /\ SvcOff
    /\ QueryOff
    /\ rpc = "input"
    /\ rin \in TrendInputs
    /\ rout = <<>>

\* suggestions_service.get_trending_topics(conversations, days)
GetTrending ==
    /\ rpc = "input"
    /\ rout' = get_trending_topics(rin.conversations, rin.days, rin.now)
    /\ rpc' = "done"
    /\ UNCHANGED rin
    /\ UNCHANGED storeVars
    /\ UNCHANGED queryVars
    /\ UNCHANGED anaVars
    /\ UNCHANGED svcVars

NextTrending == GetTrending

SpecTrending == InitTrending /\ [][NextTrending]_vars

-----------------------------------------------------------------------------
(* ConversationAnalyzer.analyze_conversation on its own. *)

\* messages of one conversation
MaxMsgs == 6

\* a token with punctuation after it
P(w, suf) == <<"", w, suf>>

\* what the messages say
AnalyzerContents ==
    << <<T("good"), T("great"), T("thanks")>>,
       <<T("bad")>>,
       <<T("error")>>,
       <<T("good"), T("bad")>>,
       <<T("We"), T("will"), T("ship"), T("the"), T("release"), P("today", "."),
         T("We"), T("should"), T("test"), T("the"), T("login"), P("page", "."),
         T("the"), T("final"), T("decision"), T("stands"), P("here", "."),
         T("approved"), T("the"), T("pricing"), T("plan"), P("now", ".")>>,
       <<T("we"), T("will"), T("ship"), T("the"), T("release"), P("today", "!"),
         T("confirmed"), T("the"), T("launch"), T("date"), P("again", "."),
         T("the"), T("conclusion"), T("was"), T("quite"), P("clear", ".")>>,
       <<T("we"), T("picked"), P("it", "."),
         T("picked"), T("the"), T("second"), T("vendor"), P("offer", "."),
         T("we"), T("selected"), T("monthly"), P("billing", ".")>>,
       <<T("we"), T("need"), T("to"), T("create"), T("the"), T("report"), P("soon", "."),
         T("Task"), T("list"), T("for"), T("the"), T("next"), P("step", "."),
         T("we"), T("will"), T("build"), T("the"), T("login"), P("form", "."),
         T("remember"), T("to"), T("update"), T("the"), P("docs", ".")>>,
       <<T("Update"), T("the"), T("pricing"), P("page", "."),
         T("we"), T("have"), T("to"), T("test"), T("the"), P("release", "."),
         T("todo"), T("items"), T("are"), T("listed"), P("here", ".")>>,
       <<T("Fix"), T("the"), T("login"), T("error"), T("today")>>,
       <<T("fix"), T("the"), T("login"), T("error"), T("today")>>,
       <<T("alpha"), T("beta"), T("gamma"), T("delta"), T("epsilon"), T("zeta"),
         T("theta"), T("kappa"), T("lambda"), T("sigma"), T("omega"),
         T("alpha"), T("beta"), T("gamma"), T("delta"), T("epsilon"), T("zeta"),
         T("theta"), T("kappa"), T("lambda"), T("sigma"), T("omega")>>,
       <<T("How"), T("to"), T("reset"), T("the"), P("password", "?"),
         T("can"), T("you"), P("help", "?"), T("thanks")>> >>

\* who sends the i-th message: the user, both in turn, the assistant
SenderOf(sel, i) ==
    CASE sel = 0 -> "user"
      [] sel = 1 -> (IF i % 2 = 1 THEN "user" ELSE "ai")
      [] OTHER -> "ai"

Conversation(n, stride, offset, sel) ==
    [i \in 1..n |->
        [content |-> AnalyzerContents[((stride * i + offset) % Len(AnalyzerContents)) + 1],
         sender |-> SenderOf(sel, i)]]

AnalyzerInputs ==
    {[client |-> client, messages |-> Conversation(n, stride, offset, sel)] :
        client \in AnalyzerClients, n \in 0..MaxMsgs, stride \in 0..3,
        offset \in 0..(Len(AnalyzerContents) - 1), sel \in 0..2}

InitAnalyze ==
    /\ StoreIdle
    /\ SvcOff
    /\ QueryOff
    /\ RelOff
    /\ apc = "input"
    /\ ain \in AnalyzerInputs
    /\ aout = <<>>

\* ConversationAnalyzer().analyze_conversation(messages)
Analyze ==
    /\ apc = "input"
    /\ aout' = analyze_conversation(ain.client, ain.messages)
    /\ apc' = "done"
    /\ UNCHANGED ain
    /\ UNCHANGED storeVars
    /\ UNCHANGED queryVars
    /\ UNCHANGED relVars
    /\ UNCHANGED svcVars

NextAnalyze == Analyze

SpecAnalyze == InitAnalyze /\ [][NextAnalyze]_vars

-----------------------------------------------------------------------------
(* ChatService (ai_module/chat_service.py).  A response is a record: kind   *)
(* "reply" with the text of the provider, "default" for the text "No       *)
(* response generated", "mock" with the template chosen, the part of the    *)
(* message it quotes and the number it appends, "none" for Python's None.   *)

\* the object after the assignments of __init__, before _initialize_client
NewService == [provider |-> "ollama", client |-> FALSE]

\* requests.get(ollama_url + "/api/tags") answered with status 200
_check_ollama_available(env) == env.ollama_up

\* os.getenv('OPENAI_API_KEY'): unset, or the text of the variable
ApiKeys == {None, Some(""), Some("   "), Some("your-openai-key"), Some("sk-test")}

\* s.strip() is empty
Blank(s) == \A i \in 1..Len(s) : SubSeq(s, i, i) = " "

\* api_key and api_key.strip() and api_key != 'your-openai-key'
KeyUsable(api_key) ==
    /\ IsSet(api_key)
    /\ Val(api_key) # ""
    /\ ~Blank(Val(api_key))
    /\ Val(api_key) # "your-openai-key"

\* a bug: the OpenAI key is tried before Ollama
InitializeKeyFirst(env) ==
    IF KeyUsable(env.api_key) /\ env.openai_ok
    THEN [provider |-> "openai", client |-> TRUE]
    ELSE IF _check_ollama_available(env)
         THEN [NewService EXCEPT !.provider = "ollama"]
         ELSE [NewService EXCEPT !.provider = "mock"]

\* ChatService._initialize_client: Ollama first, then an OpenAI key, then
\* mock; openai_ok says that "import openai" and openai.OpenAI(api_key) do
\* not raise
InitializeChatClient(env) ==
    IF _check_ollama_available(env)
    THEN [NewService EXCEPT !.provider = "ollama"]
    ELSE IF KeyUsable(env.api_key) /\ env.openai_ok
         THEN [provider |-> "openai", client |-> TRUE]
         ELSE [NewService EXCEPT !.provider = "mock"]

\* what the POST to Ollama may do: the request raises, it times out, the
\* status is not 200, the body is not JSON or its message is not an object,
\* the body has no message or no content, the content is null, or there is
\* a reply
OllamaOutcomes ==
    {"raise", "timeout", "status_500", "bad_body", "no_content", "null_content", "reply"}

\* what the completion call of OpenAI may do: raise, time out, answer without
\* a choice, with a message whose content is null, or with a reply
OpenaiOutcomes == {"raise", "timeout", "no_choices", "null_content", "reply"}

MockTemplates == 4

\* user_message[:50], [:40], [:45] of the first three templates
MockQuote1 == 50
MockQuote2 == 40
MockQuote3 == 45

NoText == <<>>

ChatResponse(kind, text, variant, number) ==
    [kind |-> kind, text |-> text, variant |-> variant, number |-> number]

\* choice is the template random.choice picks
_get_mock_response(user_message, chat_history, choice) ==
    ChatResponse("mock",
        CASE choice = 1 -> Trunc(user_message, MockQuote1)
          [] choice = 2 -> Trunc(user_message, MockQuote2)
          [] choice = 3 -> Trunc(user_message, MockQuote3)
          [] OTHER -> NoText,
        choice,
        IF Len(chat_history) > 0 THEN Len(chat_history) + 1 ELSE 0)

_get_ollama_response(env, user_message, chat_history) ==
    CASE env.outcome = "reply" -> ChatResponse("reply", env.reply, 0, 0)
      [] env.outcome = "no_content" -> ChatResponse("default", NoText, 0, 0)
      [] env.outcome = "null_content" -> ChatResponse("none", NoText, 0, 0)
      [] OTHER -> _get_mock_response(user_message, chat_history, env.choice)

\* the value returned, or None inside Some when the call raises
_get_openai_response(env, user_message, chat_history) ==
    CASE env.outcome = "reply" -> Some(ChatResponse("reply", env.reply, 0, 0))
      [] env.outcome = "null_content" -> Some(ChatResponse("none", NoText, 0, 0))
      [] OTHER -> None

\* chat_history is None when the argument is left out
get_response(service, env, user_message, chat_history) ==
    LET history == IF IsSet(chat_history) THEN Val(chat_history) ELSE <<>>
    IN  IF service.provider = "ollama"
        THEN _get_ollama_response(env, user_message, history)
        ELSE IF service.provider = "openai" /\ service.client
        THEN LET answer == _get_openai_response(env, user_message, history)
             IN  IF IsSet(answer) THEN Val(answer)
                 ELSE _get_mock_response(user_message, history, env.choice)
        ELSE _get_mock_response(user_message, history, env.choice)

\* the arguments of get_response
ChatHistories ==
    {None, Some(<<>>),
     Some(<< [content |-> <<T("login")>>, sender |-> "user"],
             [content |-> <<T("thanks"), T("login"), T("works")>>, sender |-> "ai"] >>)}

LongMessage ==
    <<T("comprehensive"), T("discussion"), T("conversation"), T("comprehensive"),
      T("discussion")>>

ChatInputs ==
    {[user_message |-> m, chat_history |-> h] :
        m \in UserMessages \cup {LongMessage}, h \in ChatHistories}

\* the outcomes after which the mock response is built
MockOutcomes ==
    {"raise", "timeout", "status_500", "bad_body", "no_choices", "not_called"}

\* what the environment does in one get_response; a provider that is not
\* called does nothing, and no template is chosen unless the mock is built
ServiceEnvs(service) ==
    {env \in [outcome : OllamaOutcomes \cup OpenaiOutcomes \cup {"not_called"},
              reply : AiReplies \cup {NoText},
              choice : 0..MockTemplates] :
        /\ service.provider = "ollama" => env.outcome \in OllamaOutcomes
        /\ service.provider = "openai" => env.outcome \in OpenaiOutcomes
        /\ service.provider = "mock" => env.outcome = "not_called"
        /\ env.outcome = "reply" <=> env.reply # NoText
        /\ env.outcome \in MockOutcomes <=> env.choice # 0}

InitService ==
    /\ StoreIdle
    /\ AnaOff
    /\ QueryOff
    /\ RelOff
    /\ spc = "new"
    /\ sin \in ChatInputs
    /\ senv = <<>> /\ svc = NewService /\ sout = <<>>

\* ChatService(): senv keeps what the environment was at construction
ConstructService(ollama_up, api_key, openai_ok) ==
    /\ spc = "new"
    /\ senv' = [ollama_up |-> ollama_up, api_key |-> api_key, openai_ok |-> openai_ok]
    /\ svc' = InitializeChatClient(senv')
    /\ spc' = "ready"
    /\ UNCHANGED <<sin, sout>>
    /\ UNCHANGED storeVars
    /\ UNCHANGED queryVars
    /\ UNCHANGED relVars
    /\ UNCHANGED anaVars

\* chat_service.get_response(user_message, chat_history)
GetResponse(env) ==
    /\ spc = "ready"
    /\ sout' = get_response(svc, env, sin.user_message, sin.chat_history)
    /\ senv' = env
    /\ spc' = "done"
    /\ UNCHANGED <<svc, sin>>
    /\ UNCHANGED storeVars
    /\ UNCHANGED queryVars
    /\ UNCHANGED relVars
    /\ UNCHANGED anaVars

NextService ==
    \/ \E ollama_up \in BOOLEAN, api_key \in ApiKeys, openai_ok \in BOOLEAN :
          ConstructService(ollama_up, api_key, openai_ok)
    \/ \E env \in ServiceEnvs(svc) : GetResponse(env)

SpecService == InitService /\ [][NextService]_vars

ChatIds == {None} \cup {Some(i) : i \in 0..MaxConvs}

\* Conversation.objects.filter(status='ended'), newest first (Meta.ordering),
\* as conversation objects
ConvObject(id) ==
    WithId([title |-> convs[id].title, created_at |-> convs[id].created_at,
            summary |-> convs[id].summary, topics |-> convs[id].topics,
            sentiment |-> convs[id].sentiment, messages |-> MessagesOf(msgs, id)], id)

SetToSeq(S) ==
    LET n == Cardinality(S)
    IN  CHOOSE f \in [1..n -> S] : \A i, j \in 1..n : i < j => f[i] < f[j]

EndedConversations ==
    LET ids == SetToSeq({id \in DOMAIN convs : convs[id].status = "ended"})
        rows == [i \in DOMAIN ids |->
                    [item |-> ids[i], score |-> <<convs[ids[i]].created_at, 1>>]]
        ordered == SortDesc(rows)
    IN  [i \in DOMAIN ordered |-> ConvObject(ordered[i].item)]

\* POST /api/conversations/query/ with the query text alone
Query(query_text, eng, env) ==
    /\ CanServe
    /\ UNCHANGED queryVars
    /\ UNCHANGED relVars
    /\ UNCHANGED anaVars
    /\ UNCHANGED svcVars
    /\ clock' = clock + 1
    /\ UNCHANGED reqs
    /\ UNCHANGED <<convs, msgs, nextId>>
    /\ IF query_text = <<>>
       THEN /\ resp' = Response("query", 400, 0)
            /\ UNCHANGED queries
       ELSE LET queryset == EndedConversations
                relevant == IF queryset = <<>> THEN <<>>
                            ELSE _find_relevant_conversations(eng, env, query_text,
                                                              queryset).relevant
            IN  \E pick \in TopicPicks(relevant) :
                   LET result == query_conversations(eng, env, query_text, queryset, pick)
                   IN  /\ queries' = Append(queries,
                              [query_text |-> query_text,
                               response |-> result.response,
                               relevant_conversations |-> result.relevant_conversation_ids])
                       /\ resp' = Response("query", 200, 0)

\* the engines QueryEngine() may build
Engines ==
    {_initialize_client([key_ok |-> k, openai_ok |-> o, st_ok |-> t]) :
        k \in BOOLEAN, o \in BOOLEAN, t \in BOOLEAN}

Next ==
    \/ \E m \in UserMessages \cup {<<>>}, c \in ChatIds, a \in ReplyOutcomes : Chat(m, c, a)
    \/ \E id \in 1..MaxConvs, client \in AnalyzerClients, raises \in BOOLEAN :
          End(id, client, raises)
    \/ \E p \in Payloads : Create(p)
    \/ \E id \in 1..MaxConvs, p \in Payloads : Update(id, p)
    \/ \E id \in 1..MaxConvs : Destroy(id)
    \/ \E q \in {<<>>, <<T("login")>>}, eng \in Engines :
          \E env \in RunEnvs(eng) : Query(q, eng, env)

Init ==
    /\ StoreIdle
    /\ AnaOff
    /\ SvcOff
    /\ QueryOff
    /\ RelOff

Spec == Init /\ [][Next]_vars

-----------------------------------------------------------------------------
(* The chat and end requests step by step.  A request is served by a worker
   of its own; between two accesses of the database the workers of other
   requests may run: the views open no transaction and take no lock.  reqs
   holds every request that has arrived, with the locals of its handler. *)

NewRequest(op, message, conversation_id) ==
    [op |-> op, pc |-> "lookup", message |-> message,
     conversation_id |-> conversation_id, conv |-> 0, obj |-> <<>>, code |-> 0]

\* return Response(..., status=code)
Answer(r, code) == [reqs EXCEPT ![r].pc = "done", ![r].code = code]

\* no request is being served
Idle == \A r \in DOMAIN reqs : reqs[r].pc = "done"

At(r, op, pc) == r \in DOMAIN reqs /\ reqs[r].op = op /\ reqs[r].pc = pc

\* a request reaches the server
Arrive(request) ==
    /\ Len(reqs) < MaxRequests
    /\ reqs' = Append(reqs, request)
    /\ clock' = clock + 1
    /\ UNCHANGED <<convs, msgs, queries, nextId, resp>>
    /\ UNCHANGED queryVars
    /\ UNCHANGED relVars
    /\ UNCHANGED anaVars
    /\ UNCHANGED svcVars

\* POST /api/conversations/chat/
ChatArrives(message, conversation_id) ==
    Arrive(NewRequest("chat", message, conversation_id))

\* POST /api/conversations/{id}/end/
EndArrives(id) == Arrive(NewRequest("end", <<>>, Some(id)))

\* chat, up to the conversation it works on: the serializer, then the row of
\* the given id or a new row
ChatLookup(r) ==
    /\ At(r, "chat", "lookup")
    /\ UNCHANGED <<msgs, queries, clock, resp>>
    /\ UNCHANGED queryVars
    /\ UNCHANGED relVars
    /\ UNCHANGED anaVars
    /\ UNCHANGED svcVars
    /\ LET user_message == reqs[r].message
           conversation_id == reqs[r].conversation_id
       IN  IF user_message = <<>>
           THEN /\ reqs' = Answer(r, 400)
                /\ UNCHANGED <<convs, nextId>>
           ELSE IF IsSet(conversation_id) /\ Val(conversation_id) # 0
           THEN LET id == Val(conversation_id)
                IN  /\ UNCHANGED <<convs, nextId>>
                    /\ IF id \notin DOMAIN convs
                       THEN reqs' = Answer(r, 404)
                       ELSE IF convs[id].status = "ended"
                       THEN reqs' = Answer(r, 400)
                       ELSE reqs' = [reqs EXCEPT ![r].pc = "user_message",
                                                 ![r].conv = id]
           ELSE /\ convs' = convs @@
                      (nextId :> NewConversation(TitleOf(user_message), clock))
                /\ nextId' = nextId + 1
                /\ reqs' = [reqs EXCEPT ![r].pc = "user_message", ![r].conv = nextId]

\* chat: Message.objects.create(conversation, content=user_message, sender='user')
ChatSaveUser(r) ==
    /\ At(r, "chat", "user_message")
    /\ msgs' = Append(msgs, NewMessage(reqs[r].conv, reqs[r].message, "user"))
    /\ reqs' = [reqs EXCEPT ![r].pc = "reply"]
    /\ UNCHANGED <<convs, queries, nextId, clock, resp>>
    /\ UNCHANGED queryVars
    /\ UNCHANGED relVars
    /\ UNCHANGED anaVars
    /\ UNCHANGED svcVars

\* chat: the history, get_response, and the creation of the AI message; the
\* creation raises for a content of None and "except Exception" answers
ChatSaveAi(r, ai_response) ==
    /\ At(r, "chat", "reply")
    /\ UNCHANGED <<convs, queries, nextId, clock, resp>>
    /\ UNCHANGED queryVars
    /\ UNCHANGED relVars
    /\ UNCHANGED anaVars
    /\ UNCHANGED svcVars
    /\ IF IsSet(ai_response)
       THEN /\ msgs' = Append(msgs, NewMessage(reqs[r].conv, Val(ai_response), "ai"))
            /\ reqs' = Answer(r, 201)
       ELSE /\ reqs' = Answer(r, 500)
            /\ UNCHANGED msgs

\* a bug: the status is saved as soon as it is set
EndLookupSaving(r) ==
    /\ At(r, "end", "lookup")
    /\ UNCHANGED <<msgs, queries, nextId, clock, resp>>
    /\ UNCHANGED queryVars
    /\ UNCHANGED relVars
    /\ UNCHANGED anaVars
    /\ UNCHANGED svcVars
    /\ LET id == Val(reqs[r].conversation_id)
       IN  IF id \notin DOMAIN convs
           THEN reqs' = Answer(r, 500) /\ UNCHANGED convs
           ELSE IF convs[id].status = "ended"
           THEN reqs' = Answer(r, 400) /\ UNCHANGED convs
           ELSE /\ convs' = [convs EXCEPT ![id].status = "ended",
                                          ![id].ended_at = Some(clock)]
                /\ reqs' = [reqs EXCEPT ![r].pc = "analyze", ![r].conv = id,
                                        ![r].obj = convs'[id]]

\* end, up to the object in memory: get_object (its Http404 is answered by
\* "except Exception"), the status test, and the status and ended_at set on
\* the object
EndLookup(r) ==
    /\ At(r, "end", "lookup")
    /\ UNCHANGED <<convs, msgs, queries, nextId, clock, resp>>
    /\ UNCHANGED queryVars
    /\ UNCHANGED relVars
    /\ UNCHANGED anaVars
    /\ UNCHANGED svcVars
    /\ LET id == Val(reqs[r].conversation_id)
       IN  IF id \notin DOMAIN convs
           THEN reqs' = Answer(r, 500)
           ELSE IF convs[id].status = "ended"
           THEN reqs' = Answer(r, 400)
           ELSE reqs' = [reqs EXCEPT
                            ![r].pc = "analyze", ![r].conv = id,
                            ![r].obj = [convs[id] EXCEPT !.status = "ended",
                                                         !.ended_at = Some(clock)]]

\* end: the messages are read and analysed and the annotations are set on
\* the object; raises says that this raises
EndAnalyze(r, client, raises) ==
    /\ At(r, "end", "analyze")
    /\ UNCHANGED <<convs, msgs, queries, nextId, clock, resp>>
    /\ UNCHANGED queryVars
    /\ UNCHANGED relVars
    /\ UNCHANGED anaVars
    /\ UNCHANGED svcVars
    /\ IF raises
       THEN reqs' = Answer(r, 500)
       ELSE LET analysis == analyze_conversation(client, MessagesOf(msgs, reqs[r].conv))
            IN  reqs' = [reqs EXCEPT
                            ![r].pc = "save",
                            ![r].obj = [@ EXCEPT !.summary = Some(analysis.summary),
                                                 !.topics = analysis.topics,
                                                 !.sentiment = Some(analysis.sentiment)]]

\* end: conversation.save() writes every field of the object to its row;
\* raises says that the database refuses
EndSave(r, raises) ==
    /\ At(r, "end", "save")
    /\ UNCHANGED <<msgs, queries, nextId, clock, resp>>
    /\ UNCHANGED queryVars
    /\ UNCHANGED relVars
    /\ UNCHANGED anaVars
    /\ UNCHANGED svcVars
    /\ IF raises
       THEN reqs' = Answer(r, 500) /\ UNCHANGED convs
       ELSE /\ convs' = [convs EXCEPT ![reqs[r].conv] = reqs[r].obj]
            /\ reqs' = Answer(r, 200)

\* the handlers' steps
Serve ==
    \/ \E r \in 1..MaxRequests : ChatLookup(r)
    \/ \E r \in 1..MaxRequests : ChatSaveUser(r)
    \/ \E r \in 1..MaxRequests, ai_response \in ReplyOutcomes : ChatSaveAi(r, ai_response)
    \/ \E r \in 1..MaxRequests : EndLookup(r)
    \/ \E r \in 1..MaxRequests, client \in AnalyzerClients, raises \in BOOLEAN :
          EndAnalyze(r, client, raises)
    \/ \E r \in 1..MaxRequests, raises \in BOOLEAN : EndSave(r, raises)

RequestIds == {None, Some(0), Some(1)}

\* requests arrive at any time; those that name a conversation name the
\* first one
NextConcurrent ==
    \/ \E c \in {None, Some(1)} : ChatArrives(<<T("Login"), T("login"), T("good")>>, c)
    \/ EndArrives(1)
    \/ Serve

SpecConcurrent == Init /\ [][NextConcurrent]_vars

\* a request arrives when the one before it has been answered; a chat
\* request may come without a message or with the id 0
NextSequential ==
    \/ \E m \in {<<>>, <<T("Login"), T("login"), T("good")>>}, c \in RequestIds :
          Idle /\ ChatArrives(m, c)
    \/ Idle /\ EndArrives(1)
    \/ Serve

SpecSequential == Init /\ [][NextSequential]_vars

-----------------------------------------------------------------------------

(* Claims about the similarity scorer and query_conversations (SpecQuery). *)

QueryDone == qpc = "done"
Scored == Val(qout.scored)
QTexts == [i \in DOMAIN qin.conversations |-> ConvText(qin.conversations[i])]
InUnit(score) == 0 <= score[1] /\ score[1] <= score[2]

\* the score the strategy gives candidate i on its own
OwnScore(strategy, i) ==
    IF strategy \in {"openai", "local"}
    THEN CosineSimilarity(Embed(qenv.emb, qin.query), Embed(qenv.emb, QTexts[i]))
    ELSE IF strategy = "tfidf"
    THEN CosineSimilarity(TfidfRow(qenv.tfv, qin.query), TfidfRow(qenv.tfv, QTexts[i]))
    ELSE JaccardScores(qin.query, <<QTexts[i]>>)[1]

\* C3: whichever strategy handles the call, the score list has one score per
\* candidate, in the candidates' order; with the remote strategy the candidates
\* after the first 20 get 0 and the first 20 keep their own scores.
C3_OneScorePerCandidate ==
    (QueryDone /\ IsSet(qout.scored)) =>
        /\ Len(Scored.scores) = Len(qin.conversations)
        /\ \A i \in DOMAIN Scored.scores :
              IF Scored.strategy = "openai" /\ i > 20
              THEN Scored.scores[i] = ZeroScore
              ELSE Scored.scores[i] = OwnScore(Scored.strategy, i)

\* C3 witness: the remote strategy scored more than 20 candidates, and one of
\* the first 20 has a score that is not 0.
C3_Witness ==
    /\ QueryDone /\ IsSet(qout.scored)
    /\ Scored.strategy = "openai"
    /\ Len(qin.conversations) > 20
    /\ \E i \in 1..20 : Scored.scores[i][1] # 0
    /\ OwnScore("openai", 21)[1] # 0

\* C4: every score the scorer returns is in [0,1], for every strategy.
C4_ScoresInUnitInterval ==
    (QueryDone /\ IsSet(qout.scored)) =>
        \A i \in DOMAIN Scored.scores : InUnit(Scored.scores[i])

\* the strategy the claimed chain selects: one level down per error
ClaimedStrategy(eng, env) ==
    LET keyword == IF env.tfidf_err THEN "jaccard" ELSE "tfidf"
        local == IF env.local_err THEN keyword ELSE "local"
    IN  IF eng.provider = "openai" THEN (IF env.remote_err THEN local ELSE "openai")
        ELSE IF eng.provider = "local" THEN local
        ELSE keyword

\* the strategy the code selects: an error of either embedding strategy
\* selects the TF-IDF keyword strategy
AmendedStrategy(eng, env) ==
    LET keyword == IF env.tfidf_err THEN "jaccard" ELSE "tfidf"
    IN  IF eng.provider = "openai" THEN (IF env.remote_err THEN keyword ELSE "openai")
        ELSE IF eng.provider = "local" THEN (IF env.local_err THEN keyword ELSE "local")
        ELSE keyword

StrategyThreshold(strategy) ==
    IF strategy \in {"tfidf", "jaccard"} THEN KeywordThreshold ELSE EmbeddingThreshold

\* C6: a candidate is relevant exactly when its score exceeds the threshold of
\* the strategy that produced the scores (0.1 keyword/Jaccard, also after a
\* fallback; 0.3 embeddings).
C6_ThresholdOfStrategy ==
    (QueryDone /\ IsSet(qout.scored)) =>
        \A i \in DOMAIN Scored.scores :
            ScoreGT(Scored.scores[i], StrategyThreshold(Scored.strategy))
            <=> \E k \in DOMAIN qout.relevant : qout.relevant[k].conv.id = i

\* C7: an empty corpus gives the canned "No conversations found" response with
\* empty lists; a corpus with no score above the threshold gives the canned
\* "couldn't find" response with empty conversation, id and suggestion lists.
C7_CannedResponses ==
    QueryDone =>
        /\ qin.conversations = <<>> =>
              /\ qout.response = <<"canned", NoConversationsResponse>>
              /\ qout.conversations = <<>>
              /\ qout.relevant_conversation_ids = <<>>
        /\ (/\ qin.conversations # <<>>
            /\ IsSet(qout.scored)
            /\ \A i \in DOMAIN Scored.scores :
                  ~ScoreGT(Scored.scores[i], MinThreshold(qeng))) =>
              /\ qout.response = <<"canned", NotFoundResponse>>
              /\ qout.conversations = <<>>
              /\ qout.relevant_conversation_ids = <<>>
              /\ qout.related_suggestions = Some(<<>>)

\* C7 witness: a corpus of several conversations, some with a score above 0,
\* none above the threshold.
C7_Witness ==
    /\ QueryDone /\ IsSet(qout.scored)
    /\ Len(qin.conversations) > 2
    /\ \E i \in DOMAIN Scored.scores : Scored.scores[i][1] > 0
    /\ \A i \in DOMAIN Scored.scores : ~ScoreGT(Scored.scores[i], MinThreshold(qeng))
    /\ qout.response = <<"canned", NotFoundResponse>>

\* C8: at most 5 conversations are returned, by non-increasing score, each
\* above the relevance threshold, none left out scores higher than one
\* returned, and relevant_conversation_ids lists their ids in the same order.
C8_TopFive ==
    (QueryDone /\ IsSet(qout.scored)) =>
        LET out == qout.conversations
            ids == qout.relevant_conversation_ids
        IN  /\ Len(out) <= 5
            /\ \A k \in DOMAIN out :
                  /\ out[k].id \in DOMAIN qin.conversations
                  /\ out[k].relevance_score = Scored.scores[out[k].id]
                  /\ ScoreGT(out[k].relevance_score, StrategyThreshold(Scored.strategy))
                  /\ ScoreGT(out[k].relevance_score, MinThreshold(qeng))
            /\ \A k \in 1..(Len(out) - 1) :
                  ScoreGE(out[k].relevance_score, out[k + 1].relevance_score)
            /\ \A j, k \in DOMAIN out : j # k => out[j].id # out[k].id
            /\ \A i \in DOMAIN qin.conversations :
                  (\A k \in DOMAIN out : out[k].id # i) =>
                      \A k \in DOMAIN out :
                          ~ScoreGT(Scored.scores[i], out[k].relevance_score)
            /\ Len(ids) = Len(out)
            /\ \A k \in DOMAIN out : ids[k] = out[k].id

\* C8 witness: more than 5 candidates are relevant, 5 are returned with scores
\* that are not all equal, and their order is not the corpus order.
C8_Witness ==
    /\ QueryDone /\ IsSet(qout.scored)
    /\ Len(qout.relevant) > 5
    /\ Len(qout.conversations) = 5
    /\ ScoreGT(qout.conversations[1].relevance_score, qout.conversations[5].relevance_score)
    /\ \E k \in 1..4 : qout.conversations[k].id > qout.conversations[k + 1].id

-----------------------------------------------------------------------------
(* Claims about get_related_conversations (SpecRelated). *)

RelatedDone == rpc = "done"

\* the corpus entries the method may return: not the target, with topics
Eligible(i) ==
    /\ rin.all[i].id # rin.current.id
    /\ rin.all[i].topics # <<>>

ScoreOf(i) == _calculate_similarity_score(rin.current, rin.all[i])

\* C9: no returned entry has the target's id, and none is a corpus
\* conversation without topics.
C9_ExcludesTargetAndTopicless ==
    RelatedDone =>
        \A k \in DOMAIN rout :
            /\ rout[k].id # rin.current.id
            /\ \A i \in DOMAIN rin.all :
                  rin.all[i].id = rout[k].id => rin.all[i].topics # <<>>

\* C9 witness: the corpus contains the target and a conversation without
\* topics, both would pass the score threshold, and something is returned.
C9_Witness ==
    /\ RelatedDone
    /\ rout # <<>>
    /\ Len(rout) < rin.limit
    /\ \E i \in DOMAIN rin.all :
          /\ rin.all[i].id = rin.current.id
          /\ ScoreGT(ScoreOf(i), SuggestionThreshold)
    /\ \E i \in DOMAIN rin.all :
          /\ rin.all[i].topics = <<>>
          /\ rin.all[i].id # rin.current.id
          /\ ScoreGT(ScoreOf(i), SuggestionThreshold)

\* C10: at most limit entries, by non-increasing similarity_score, each score
\* above 0.1 and at most 1.0, and no eligible candidate with a higher score
\* than a returned one is left out.
C10_TopLimit ==
    RelatedDone =>
        /\ Len(rout) <= rin.limit
        /\ \A k \in DOMAIN rout :
              /\ rout[k].id \in DOMAIN rin.all
              /\ Eligible(rout[k].id)
              /\ rout[k].similarity_score = ScoreOf(rout[k].id)
              /\ ScoreGT(rout[k].similarity_score, <<1, 10>>)
              /\ ScoreGE(<<1, 1>>, rout[k].similarity_score)
        /\ \A k \in 1..(Len(rout) - 1) :
              ScoreGE(rout[k].similarity_score, rout[k + 1].similarity_score)
        /\ \A j, k \in DOMAIN rout : j # k => rout[j].id # rout[k].id
        /\ \A i \in DOMAIN rin.all :
              (Eligible(i) /\ \A k \in DOMAIN rout : rout[k].id # i) =>
                  \A k \in DOMAIN rout :
                      ~ScoreGT(ScoreOf(i), rout[k].similarity_score)

\* C10 witness: more eligible candidates pass the threshold than the limit
\* allows, the returned scores differ, and the order is not the corpus order.
C10_Witness ==
    /\ RelatedDone
    /\ rin.limit >= 2
    /\ Len(rout) = rin.limit
    /\ Cardinality({i \in DOMAIN rin.all :
                       Eligible(i) /\ ScoreGT(ScoreOf(i), SuggestionThreshold)}) > rin.limit
    /\ ScoreGT(rout[1].similarity_score, rout[Len(rout)].similarity_score)
    /\ \E k \in 1..(Len(rout) - 1) : rout[k].id > rout[k + 1].id
    /\ \E i \in DOMAIN rin.all : Eligible(i) /\ ~ScoreGT(ScoreOf(i), SuggestionThreshold)

-----------------------------------------------------------------------------
(* Claims about the persisted store (Spec). *)

\* C1: in every reachable state of the store, a conversation's ended_at is set
\* if and only if its status is 'ended'.
C1_EndedAtIffEnded ==
    \A id \in DOMAIN convs :
        IsSet(convs[id].ended_at) <=> convs[id].status = "ended"

Annotation(row) == <<row.summary, row.topics, row.sentiment>>
Unpopulated == <<None, <<>>, None>>

\* C2: summary, topics and sentiment are written exactly once, by the end
\* operation: a request changes them only when it is a successful end of a
\* conversation whose annotation was not populated yet.
C2_WriteOnce ==
    [][\A id \in DOMAIN convs \cap DOMAIN convs' :
          Annotation(convs'[id]) # Annotation(convs[id]) =>
              /\ resp'.op = "end" /\ resp'.code = 200 /\ resp'.id = id
              /\ Annotation(convs[id]) = Unpopulated]_vars

-----------------------------------------------------------------------------
(* C11: the reason string of a related conversation. *)

\* the corpus conversation a returned entry stands for
ReturnedConv(k) == rin.all[rout[k].id]

ReasonKinds(k) == {rout[k].reason[j].kind : j \in DOMAIN rout[k].reason}

\* C11: for every returned related conversation the reason names exactly the
\* sub-scores that contributed to its score (shared topics, sentiment match,
\* temporal bucket), and is "Similar content" only when none of them
\* contributed.
C11_ReasonNamesContributors ==
    RelatedDone =>
        \A k \in DOMAIN rout :
            LET conv == ReturnedConv(k)
                topic == TopicTerm(rin.current, conv)[1] > 0
                sentiment == SentimentTerm(rin.current, conv) > 0
                temporal == TemporalTerm(rin.current, conv) > 0
            IN  /\ "Shared topics" \in ReasonKinds(k) <=> topic
                /\ "Similar sentiment" \in ReasonKinds(k) <=> sentiment
                /\ (ReasonKinds(k) \cap {"From the same week", "From the same month"} # {})
                      <=> temporal
                /\ "Similar content" \in ReasonKinds(k)
                      <=> ~(topic \/ sentiment \/ temporal)

-----------------------------------------------------------------------------
(* C12: the round trip of get_topic_based_suggestions. *)

TopicsDone == rpc = "done"

\* the conversation with id c is returned
ReturnedAt(c) == {k \in DOMAIN rout : rout[k].id = c}

\* the query is exactly the topic list of the corpus conversation c
AsksTopicsOf(c) == rin.all[c].topics # <<>> /\ rin.topics = rin.all[c].topics

\* C12 as stated: called with exactly the topic list of a conversation c of
\* the corpus (and the default limit), the method returns c among its results
\* with matching_topics equal to c's own topic set.
C12_RoundTrip ==
    (TopicsDone /\ rin.limit = DefaultLimit) =>
        \A c \in DOMAIN rin.all :
            AsksTopicsOf(c) =>
                \E k \in ReturnedAt(c) :
                    rout[k].matching_topics = Range(rin.all[c].topics)

\* the conversations listed before c that match every asked topic, as c does
FullMatchesBefore(c) ==
    {j \in 1..(c - 1) : TopicSet(rin.topics) \subseteq TopicSet(rin.all[j].topics)}

\* C12 amended: c is returned exactly when fewer than limit conversations
\* that match every asked topic are listed before it, and then with relevance
\* 1 and matching_topics equal to the lower-cased topic set of c.
C12_RoundTripWithinLimit ==
    TopicsDone =>
        \A c \in DOMAIN rin.all :
            AsksTopicsOf(c) =>
                /\ ReturnedAt(c) # {} <=> Cardinality(FullMatchesBefore(c)) < rin.limit
                /\ \A k \in ReturnedAt(c) :
                      /\ rout[k].matching_topics = TopicSet(rin.all[c].topics)
                      /\ rout[k].relevance = <<Cardinality(TopicSet(rin.topics)),
                                                Cardinality(TopicSet(rin.topics))>>

\* C12 witness: the topic list of a conversation is asked with the default
\* limit; that conversation is returned, not first, with its topics matching
\* in lower case only, and another conversation with the same topics is cut
\* off by the limit.
C12_Witness ==
    /\ TopicsDone
    /\ rin.limit = DefaultLimit
    /\ \E c \in DOMAIN rin.all :
          /\ AsksTopicsOf(c)
          /\ \E k \in ReturnedAt(c) :
                /\ k > 1
                /\ rout[k].matching_topics # Range(rin.all[c].topics)
    /\ \E c \in DOMAIN rin.all : AsksTopicsOf(c) /\ ReturnedAt(c) = {}

-----------------------------------------------------------------------------
(* C13: trending topics. *)

TrendingDone == rpc = "done"

\* the conversations created within the last rin.days days
Window ==
    {i \in DOMAIN rin.conversations :
        rin.conversations[i].created_at >= rin.now - 24 * rin.days}

\* the window conversations in which the topic appears
ConversationsWith(topic) ==
    {i \in Window : topic \in Range(rin.conversations[i].topics)}

\* C13: only window conversations are considered; at most 10 topics are
\* returned, by non-increasing count; conversation_count is the number of
\* window conversations in which the topic appears and percentage is that
\* number over the number of window conversations, times 100, rounded to one
\* decimal; an empty window gives an empty list.
C13_TrendingTopics ==
    TrendingDone =>
        /\ Window = {} => rout = <<>>
        /\ Len(rout) <= 10
        /\ \A k \in 1..(Len(rout) - 1) :
              rout[k].conversation_count >= rout[k + 1].conversation_count
        /\ \A k \in DOMAIN rout :
              /\ rout[k].conversation_count = Cardinality(ConversationsWith(rout[k].topic))
              /\ rout[k].conversation_count > 0
              /\ rout[k].percentage
                    = RoundPercent(Cardinality(ConversationsWith(rout[k].topic)),
                                   Cardinality(Window))

-----------------------------------------------------------------------------
(* C14 - C18: the analysis of a conversation. *)

AnalyzeDone == apc = "done"

SentimentLabels == {"very positive", "positive", "neutral", "negative", "very negative"}

\* the words of the conversation that the topic extraction counts twice or more
RepeatedWords ==
    LET ws == SelectSeq(LowerWords(AllText(ain.messages)),
                  LAMBDA w : Len(w) >= 4 /\ w \notin StopWords)
    IN  {w \in Range(ws) : CountIn(ws, w) > 1}

\* C14: for a non-empty message sequence the sentiment is one of the five
\* labels and the topics list has at most 7 entries.
C14_LabelsAndTopicsCap ==
    (AnalyzeDone /\ ain.messages # <<>>) =>
        /\ aout.sentiment \in SentimentLabels
        /\ Len(aout.topics) <= 7

\* C14 witness: more than 7 words are repeated, 7 topics are returned, and
\* the sentiment is not the default one.
C14_Witness ==
    /\ AnalyzeDone
    /\ Cardinality(RepeatedWords) > 7
    /\ Len(aout.topics) = 7
    /\ aout.sentiment # "neutral"

\* the distinct lexicon words of the text
PositiveHits == Cardinality(Range(LowerWords(AllText(ain.messages))) \cap PositiveWords)
NegativeHits == Cardinality(Range(LowerWords(AllText(ain.messages))) \cap NegativeWords)

\* C15: with p distinct positive and n distinct negative lexicon words,
\* p = n = 0 gives neutral, and otherwise r = p / (p + n) gives very positive
\* above 0.70, positive above 0.55, neutral above 0.45, negative above 0.30,
\* very negative below.
C15_SentimentThresholds ==
    (AnalyzeDone /\ ain.messages # <<>>) =>
        LET p == PositiveHits
            n == NegativeHits
        IN  aout.sentiment =
              (IF p = 0 /\ n = 0 THEN "neutral"
               ELSE IF 100 * p > 70 * (p + n) THEN "very positive"
               ELSE IF 100 * p > 55 * (p + n) THEN "positive"
               ELSE IF 100 * p > 45 * (p + n) THEN "neutral"
               ELSE IF 100 * p > 30 * (p + n) THEN "negative"
               ELSE "very negative")

\* C15 witness: both lexicons are hit, unequally, and the label is one of
\* the two inner bands.
C15_Witness ==
    /\ AnalyzeDone
    /\ PositiveHits = 3 /\ NegativeHits = 2
    /\ aout.sentiment = "positive"

\* the positions of raw whose entry is not equal, ignoring case, to an
\* earlier one
FirstSeenAt(raw) ==
    {i \in DOMAIN raw : \A j \in 1..(i - 1) : Lower(raw[j]) # Lower(raw[i])}

\* kept is the first-seen entries of raw in their order, cut to cap
KeepsFirstSeen(kept, raw, cap) ==
    /\ Len(kept) = Min2(cap, Cardinality(FirstSeenAt(raw)))
    /\ \A k \in DOMAIN kept :
          \E i \in FirstSeenAt(raw) :
              /\ kept[k] = raw[i]
              /\ Cardinality({j \in FirstSeenAt(raw) : j < i}) = k - 1

NoDuplicates(kept) ==
    \A j, k \in DOMAIN kept : j # k => Lower(kept[j]) # Lower(kept[k])

\* C16: at most 5 decisions and 7 action items, no two entries of a list
\* equal ignoring case, the entries kept being the first-seen ones in their
\* original order.
C16_DecisionsAndActions ==
    (AnalyzeDone /\ ain.messages # <<>>) =>
        /\ Len(aout.decisions) <= 5
        /\ Len(aout.action_items) <= 7
        /\ NoDuplicates(aout.decisions)
        /\ NoDuplicates(aout.action_items)
        /\ KeepsFirstSeen(aout.decisions, RawDecisions(ain.messages), 5)
        /\ KeepsFirstSeen(aout.action_items, RawActionItems(ain.messages), 7)

\* C16 witness: both raw lists hold a duplicate, the decisions one that
\* differs in case, and both hold more distinct entries than their cap.
C16_Witness ==
    /\ AnalyzeDone
    /\ LET raw == RawDecisions(ain.messages)
       IN  /\ Cardinality(FirstSeenAt(raw)) > 5
           /\ \E i, j \in DOMAIN raw :
                 i < j /\ raw[i] # raw[j] /\ Lower(raw[i]) = Lower(raw[j])
    /\ LET raw == RawActionItems(ain.messages)
       IN  /\ Cardinality(FirstSeenAt(raw)) > 7
           /\ Cardinality(FirstSeenAt(raw)) < Len(raw)
    /\ Len(aout.decisions) = 5
    /\ Len(aout.action_items) = 7

\* the message and word counts of a result
CountKeys ==
    {"total_messages", "user_messages", "ai_messages",
     "word_count", "user_word_count", "ai_word_count"}

\* C17: for an empty message sequence the result has empty topics,
\* key_points, decisions and action_items, message and word counts that are
\* all zero, and the sentiment neutral.
C17_EmptyAnalysis ==
    (AnalyzeDone /\ ain.messages = <<>>) =>
        /\ aout.topics = <<>>
        /\ aout.key_points = <<>>
        /\ aout.decisions = <<>>
        /\ aout.action_items = <<>>
        /\ aout.sentiment = "neutral"
        /\ \A key \in CountKeys : key \in DOMAIN aout /\ aout[key] = 0

\* the responder is not configured, or its call fails
ResponderUnavailable == ~IsSet(ain.client) \/ ~IsSet(Val(ain.client))

ResultKeys ==
    {"summary", "topics", "sentiment", "key_points", "decisions", "action_items"}
    \cup CountKeys

\* C18: for a non-empty message sequence, when the responder is not
\* configured or its call fails, the result is complete and its summary is
\* the rule-based summary of the messages, which is the fixed placeholder
\* when no message is from the user.
C18_SummaryFallback ==
    (AnalyzeDone /\ ain.messages # <<>> /\ ResponderUnavailable) =>
        /\ ResultKeys \subseteq DOMAIN aout
        /\ aout.summary = _generate_basic_summary(ain.messages)
        /\ (\A i \in DOMAIN ain.messages : ain.messages[i].sender # "user") =>
              aout.summary = <<T("Conversation"), T("with"), T("AI"), T("assistant")>>

\* C18 witness: the responder is configured and its call fails, and the
\* conversation has several user messages.
C18_Witness ==
    /\ AnalyzeDone
    /\ IsSet(ain.client) /\ ~IsSet(Val(ain.client))
    /\ Cardinality({i \in DOMAIN ain.messages : ain.messages[i].sender = "user"}) > 5
    /\ aout.summary # <<>>

-----------------------------------------------------------------------------
(* C19: ChatService.get_response always answers. *)

ServiceDone == spc = "done"

\* C19: get_response returns a response text whatever the provider does, and
\* the mock response when the provider call raises, times out or answers
\* with a status other than 200.
C19_AlwaysAResponse ==
    ServiceDone =>
        /\ sout.kind # "none"
        /\ senv.outcome \in {"raise", "timeout", "status_500"} => sout.kind = "mock"

-----------------------------------------------------------------------------
(* C20: the composite similarity score. *)

\* the temporal term by the absolute difference of the creation times, which
\* are in hours
TemporalByDistance(conv1, conv2) ==
    LET distance == Abs(conv1.created_at - conv2.created_at)
    IN  IF distance < 7 * 24 THEN 15
        ELSE IF distance < 30 * 24 THEN 10
        ELSE IF distance < 90 * 24 THEN 5
        ELSE 0

\* min(1.0, 0.5 x topic Jaccard + sentiment term + temporal term
\*          + 0.15 x word Jaccard of title and summary), as <<num, den>>
ClaimedScore(conv1, conv2) ==
    LET topic == TopicTerm(conv1, conv2)
        text == _calculate_text_similarity(TitleAndSummary(conv1), TitleAndSummary(conv2))
        num == 50 * topic[1] * text[2]
               + (SentimentTerm(conv1, conv2) + TemporalByDistance(conv1, conv2))
                 * topic[2] * text[2]
               + 15 * text[1] * topic[2]
        den == 100 * topic[2] * text[2]
    IN  IF num > den THEN <<1, 1>> ELSE <<num, den>>

\* C20: the similarity score of every returned conversation is the capped
\* sum of the four terms, the temporal one taken by the absolute difference
\* of the creation times (under 7, 30, 90 days).
C20_CompositeScore ==
    RelatedDone =>
        \A k \in DOMAIN rout :
            LET claimed == ClaimedScore(rin.current, ReturnedConv(k))
            IN  rout[k].similarity_score[1] * claimed[2]
                  = claimed[1] * rout[k].similarity_score[2]

-----------------------------------------------------------------------------
(* C21: which words are the topics, and in which order. *)

\* the lowercase alphabetic words of 4 letters or more of the concatenated
\* contents that are not stop words, in the order of the text
TopicWords ==
    SelectSeq(LowerWords(AllText(ain.messages)),
        LAMBDA w : Len(w) >= 4 /\ w \notin StopWords)

\* how often each of the words occurs
TopicCounts ==
    LET words == TopicWords
    IN  [w \in Range(words) |-> CountIn(words, w)]

\* where each of the words occurs first
TopicFirsts ==
    LET words == TopicWords
    IN  [w \in Range(words) |->
            CHOOSE i \in DOMAIN words :
                words[i] = w /\ \A j \in 1..(i - 1) : words[j] # w]

\* C21: the topics are the words (lowercase, alphabetic, 4 letters or more,
\* no stop words) that occur more than once in the concatenated contents,
\* by non-increasing frequency, equally frequent words in the order of their
\* first occurrence, cut to the first 7.
C21_TopicsExact ==
    AnalyzeDone =>
        LET topics == aout.topics
            count == TopicCounts
            first == TopicFirsts
            repeated == {w \in DOMAIN count : count[w] > 1}
            \* w is more frequent than v, or as frequent and seen first
            Before(w, v) ==
                \/ count[w] > count[v]
                \/ count[w] = count[v] /\ first[w] < first[v]
        IN  /\ Range(topics) \subseteq repeated
            /\ Len(topics) = Min2(7, Cardinality(repeated))
            /\ \A i, j \in DOMAIN topics : i < j => Before(topics[i], topics[j])
            /\ \A w \in repeated \ Range(topics) :
                   \A i \in DOMAIN topics : Before(topics[i], w)

\* C21 witness: more than 7 words are repeated, the topics returned differ in
\* frequency, and two of them are equally frequent.
C21_Witness ==
    /\ AnalyzeDone
    /\ LET count == TopicCounts
       IN  /\ Cardinality({w \in DOMAIN count : count[w] > 1}) > 7
           /\ \E i, j \in DOMAIN aout.topics :
                  count[aout.topics[i]] > count[aout.topics[j]]
           /\ \E i, j \in DOMAIN aout.topics :
                  i < j /\ count[aout.topics[i]] = count[aout.topics[j]]

-----------------------------------------------------------------------------
(* C22: which sentences become decision candidates. *)

\* the pairs of a message and a decision pattern that matches its content
DecisionPairs ==
    {pr \in (DOMAIN ain.messages) \X (DOMAIN decision_patterns) :
        Search(decision_patterns[pr[2]], ain.messages[pr[1]].content)}

\* the sentences, by position in the list, that match pattern q and have at
\* least so many characters
MatchingFrom(sentences, q, least) ==
    {i \in DOMAIN sentences :
        /\ Search(decision_patterns[q], sentences[i])
        /\ CharLen(sentences[i]) >= least}

\* the entry is among the decisions, ignoring case
AmongDecisions(entry) ==
    \E k \in DOMAIN aout.decisions : Lower(aout.decisions[k]) = Lower(entry)

\* C22 as stated: for every message and every decision pattern that matches
\* it, every sentence of at least 10 characters that matches the pattern is a
\* candidate (cut to 150 characters), so that it is among the decisions
\* whenever the cap of 5 is not reached.
C22_EverySentenceKept ==
    (AnalyzeDone /\ Len(aout.decisions) < 5) =>
        \A pr \in DecisionPairs :
            LET sentences == Sentences(ain.messages[pr[1]].content)
            IN  \A i \in MatchingFrom(sentences, pr[2], 10) :
                    AmongDecisions(Trunc(sentences[i], 150))

\* the first sentence of message m of more than 15 characters that matches
\* pattern q, cut to 150 characters: none or one
FirstLong(m, q) ==
    LET sentences == Sentences(ain.messages[m].content)
        long == MatchingFrom(sentences, q, 16)
    IN  IF long = {} THEN {}
        ELSE {Trunc(sentences[CHOOSE i \in long : \A j \in long : i <= j], 150)}

\* C22 amended: for every message and every decision pattern that matches it,
\* only the first sentence of more than 15 characters that matches the pattern
\* is a candidate (cut to 150 characters): every decision is such a sentence,
\* and every such sentence is among the decisions whenever the cap of 5 is
\* not reached.
C22_FirstLongSentenceKept ==
    AnalyzeDone =>
        LET candidates == UNION {FirstLong(pr[1], pr[2]) : pr \in DecisionPairs}
        IN  /\ Range(aout.decisions) \subseteq candidates
            /\ Len(aout.decisions) < 5 => \A c \in candidates : AmongDecisions(c)

\* C22 witness: a pattern matches two long sentences of a message and the
\* second one is not among the decisions, and a pattern matches a sentence of
\* 10 to 15 characters that is not among them either.
C22_Witness ==
    /\ AnalyzeDone
    /\ aout.decisions # <<>>
    /\ Len(aout.decisions) < 5
    /\ \E pr \in DecisionPairs :
           LET sentences == Sentences(ain.messages[pr[1]].content)
           IN  \E i, j \in MatchingFrom(sentences, pr[2], 16) :
                   i < j /\ ~AmongDecisions(Trunc(sentences[j], 150))
    /\ \E pr \in DecisionPairs :
           LET sentences == Sentences(ain.messages[pr[1]].content)
           IN  \E i \in MatchingFrom(sentences, pr[2], 10) :
                   /\ CharLen(sentences[i]) <= 15
                   /\ ~AmongDecisions(sentences[i])

-----------------------------------------------------------------------------
(* C23: the statistics of a conversation. *)

\* avg is the quotient of words by count without its fraction, 0 for no count
TruncatedQuotient(avg, words, count) ==
    IF count = 0 THEN avg = 0
    ELSE avg * count <= words /\ words < (avg + 1) * count

SentBy(sender) == {i \in DOMAIN ain.messages : ain.messages[i].sender = sender}

\* C23: for a non-empty message sequence with the senders user and ai,
\* total_messages = user_messages + ai_messages, word_count = user_word_count
\* + ai_word_count, every average is the integer quotient of the word count
\* by the matching message count, and 0 when that count is 0.
C23_Stats ==
    (AnalyzeDone /\ ain.messages # <<>>) =>
        /\ aout.user_messages = Cardinality(SentBy("user"))
        /\ aout.ai_messages = Cardinality(SentBy("ai"))
        /\ aout.total_messages = aout.user_messages + aout.ai_messages
        /\ aout.word_count = aout.user_word_count + aout.ai_word_count
        /\ TruncatedQuotient(aout.avg_message_length, aout.word_count,
                             aout.total_messages)
        /\ TruncatedQuotient(aout.avg_user_length, aout.user_word_count,
                             aout.user_messages)
        /\ TruncatedQuotient(aout.avg_ai_length, aout.ai_word_count,
                             aout.ai_messages)

\* C23 witness: the assistant has sent nothing, so that its average is 0, and
\* the user's average is a quotient with a remainder.
C23_Witness ==
    /\ AnalyzeDone
    /\ ain.messages # <<>>
    /\ aout.ai_messages = 0
    /\ aout.avg_ai_length = 0
    /\ aout.avg_user_length * aout.user_messages < aout.user_word_count

-----------------------------------------------------------------------------
(* C24: the provider a new ChatService selects. *)

ServiceReady == spc = "ready"

\* the key is set, not blank and not the placeholder of the sample settings
UsableKeyConfigured ==
    senv.api_key \notin {None, Some(""), Some("   "), Some("your-openai-key")}

\* C24: after the initialization the provider is "ollama" exactly when the
\* Ollama health check succeeds; otherwise "openai" exactly when a usable API
\* key is configured and the client is constructed without error; otherwise
\* "mock"; and the provider "openai" has its client set.
C24_ProviderSelection ==
    ServiceReady =>
        /\ svc.provider = "ollama" <=> senv.ollama_up
        /\ svc.provider = "openai" <=>
               (~senv.ollama_up /\ UsableKeyConfigured /\ senv.openai_ok)
        /\ svc.provider = "mock" <=>
               (~senv.ollama_up /\ ~(UsableKeyConfigured /\ senv.openai_ok))
        /\ svc.provider = "openai" => svc.client

\* C24 witness: Ollama answers and a usable key is configured with a client
\* that can be constructed; Ollama is the provider.
C24_Witness ==
    /\ ServiceReady
    /\ senv.ollama_up
    /\ UsableKeyConfigured
    /\ senv.openai_ok
    /\ svc.provider = "ollama"

-----------------------------------------------------------------------------
(* C25 to C29: the chat and end requests (SpecConcurrent, SpecSequential). *)

\* C25: under any interleaving of chat and end requests on a conversation, no
\* message is created in the conversation once its status is saved as
\* "ended".
C25_NoMessageAfterEnded ==
    [][Len(msgs') > Len(msgs) =>
          convs[msgs'[Len(msgs')].conversation].status # "ended"]_vars

\* the end requests on one conversation that have been answered
AnsweredEnds(id) ==
    {r \in DOMAIN reqs : /\ reqs[r].op = "end"
                         /\ reqs[r].conversation_id = Some(id)
                         /\ reqs[r].pc = "done"}

\* C26: of two concurrent end requests on the same active conversation only
\* one succeeds and saves ended_at, summary, topics and sentiment; the other
\* one is answered "Conversation already ended".
C26_OneEndSucceeds ==
    \A id \in DOMAIN convs :
        \A r1, r2 \in AnsweredEnds(id) :
            (r1 # r2 /\ reqs[r1].code = 200) => reqs[r2].code # 200

\* the step is the one in which request r looks its conversation up
LooksUp(r) == reqs[r].pc = "lookup" /\ reqs'[r].pc # "lookup"

\* the step answers request r with an error and writes nothing
RejectsUntouched(r) ==
    /\ reqs'[r].pc = "done"
    /\ reqs'[r].code \in {400, 404}
    /\ UNCHANGED <<convs, msgs, nextId>>

\* C27: a chat request on an ended conversation or with the id of no
\* conversation is answered with an error and creates no conversation and no
\* message; an end request on an ended conversation is answered with an error
\* and changes nothing of the conversation.
C27_RejectedLeavesStore ==
    [][\A r \in DOMAIN reqs :
          LooksUp(r) =>
              LET id == reqs[r].conversation_id
              IN  /\ ( /\ reqs[r].op = "chat"
                       /\ reqs[r].message # <<>>
                       /\ IsSet(id)
                       /\ (Val(id) \notin DOMAIN convs \/ convs[Val(id)].status = "ended") )
                     => RejectsUntouched(r)
                  /\ ( /\ reqs[r].op = "end"
                       /\ Val(id) \in DOMAIN convs
                       /\ convs[Val(id)].status = "ended" )
                     => RejectsUntouched(r)]_vars

\* the step is the one in which the analysis or the save of end request r
\* fails
EndFails(r) ==
    /\ reqs[r].op = "end"
    /\ reqs[r].pc \in {"analyze", "save"}
    /\ reqs'[r].pc = "done"
    /\ reqs'[r].code = 500

\* C28: when the analysis or the save of an end request fails, the request is
\* answered with an error and the conversation is as it was: active, with no
\* ended_at and no summary, topics and sentiment.
C28_FailedEndLeavesActive ==
    [][\A r \in DOMAIN reqs :
          EndFails(r) =>
              /\ UNCHANGED <<convs, msgs>>
              /\ convs'[reqs[r].conv].status = "active"
              /\ convs'[reqs[r].conv].ended_at = None
              /\ convs'[reqs[r].conv].summary = None
              /\ convs'[reqs[r].conv].topics = <<>>
              /\ convs'[reqs[r].conv].sentiment = None]_vars

\* C28 witness: an end request has failed in its analysis or its save, and a
\* later end request on the same conversation has succeeded.
C28_Witness ==
    \E r1, r2 \in DOMAIN reqs :
        /\ r1 < r2
        /\ reqs[r1].op = "end" /\ reqs[r2].op = "end"
        /\ reqs[r1].conversation_id = reqs[r2].conversation_id
        /\ reqs[r1].pc = "done" /\ reqs[r1].code = 500 /\ reqs[r1].conv # 0
        /\ reqs[r2].pc = "done" /\ reqs[r2].code = 200
        /\ convs[reqs[r2].conv].status = "ended"

\* the chat requests answered with 201 that wrote to the conversation
SuccessfulChats(id) ==
    {r \in DOMAIN reqs : /\ reqs[r].op = "chat"
                         /\ reqs[r].pc = "done"
                         /\ reqs[r].code = 201
                         /\ reqs[r].conv = id}

\* C29: after requests that do not overlap, every conversation has two
\* messages for each successful chat request, and its messages alternate
\* user, ai, starting with user.
C29_MessagesAlternate ==
    Idle =>
        \A id \in DOMAIN convs :
            LET own == MessagesOf(msgs, id)
            IN  /\ Len(own) = 2 * Cardinality(SuccessfulChats(id))
                /\ \A i \in DOMAIN own :
                       own[i].sender = (IF i % 2 = 1 THEN "user" ELSE "ai")

-----------------------------------------------------------------------------
(* C30: the symmetry of the composite similarity score. *)

\* C30: the score of the target with a returned conversation is the score of
\* that conversation with the target, whatever their creation times are.
C30_ScoreSymmetric ==
    RelatedDone =>
        \A k \in DOMAIN rout :
            LET swapped == _calculate_similarity_score(ReturnedConv(k), rin.current)
            IN  rout[k].similarity_score[1] * swapped[2]
                  = swapped[1] * rout[k].similarity_score[2]

====
